---- MODULE Spec2Model ----
(***************************************************************************)
(* Procedural generators of DeeFeeCee/maya: Minecraft characters, Star     *)
(* Wars ships and fleets, starships (v1, v2) and 3D text (v1, v2).         *)
(*                                                                         *)
(* Every generator is a walk over the host application's scene: it looks   *)
(* its selectors up in a static table, creates primitives and materials,   *)
(* groups them and returns the group.  The host scene is modelled as the   *)
(* record h = [scene, mats, keys]:                                         *)
(*   scene  sequence of DAG nodes; a node's handle is its index            *)
(*   mats   sequence of shading networks (shader + shading group)          *)
(*   keys   set of keyframes [node, attr, time, value]                     *)
(* A node carries the name the code asked the host for; an unnamed         *)
(* primitive gets the host's default name (prefix and running number).     *)
(* Colours and factors are in hundredths, coordinates in hundredths of a   *)
(* scene unit.  A host call made by the code is assumed to succeed unless  *)
(* an operator says otherwise; the hand-tuned size and offset of each      *)
(* primitive inside its own ship or character is not part of the state.    *)
(***************************************************************************)
EXTENDS Integers, Sequences, FiniteSets, TLC

\* Python's None where the code passes or returns a string.
None == "None"
\* Node handle returned where the code returns None.
NoNode == 0

Range(s) == {s[i] : i \in DOMAIN s}

\* e, with the record r worked out first: a walk over a long list of host
\* calls carries values, not pending computations.
With(r, e) == CASE DOMAIN r = DOMAIN r -> e
\* F of the value of e: the result of a call, bound to a local name.
Let(e, F(_)) == F(e)

\* str(n) for a natural number n.
Digits == <<"0", "1", "2", "3", "4", "5", "6", "7", "8", "9">>
RECURSIVE Str(_)
Str(n) == IF n < 10 THEN Digits[n + 1] ELSE Str(n \div 10) \o Digits[(n % 10) + 1]

\* A text is a sequence of one-character strings; Join is "".join(text).
RECURSIVE Join(_)
Join(text) == IF text = <<>> THEN "" ELSE Head(text) \o Join(Tail(text))

\* text.replace(" ", "_")
ReplaceSpaces(text) == [i \in DOMAIN text |-> IF text[i] = " " THEN "_" ELSE text[i]]

\* str.upper(), character by character.
LowerChars == <<"a", "b", "c", "d", "e", "f", "g", "h", "i", "j", "k", "l", "m", "n", "o", "p", "q",
                "r", "s", "t", "u", "v", "w", "x", "y", "z">>
UpperChars == <<"A", "B", "C", "D", "E", "F", "G", "H", "I", "J", "K", "L", "M", "N", "O", "P", "Q",
                "R", "S", "T", "U", "V", "W", "X", "Y", "Z">>
Upper(c) ==
    IF \E k \in DOMAIN LowerChars : LowerChars[k] = c
    THEN UpperChars[CHOOSE k \in DOMAIN LowerChars : LowerChars[k] = c]
    ELSE c
UpperText(text) == [i \in DOMAIN text |-> Upper(text[i])]

(***************************************************************************)
(* Static tables.                                                          *)
(***************************************************************************)
\* CHARACTERS  lines 27-134
CHARACTER_KEYS == <<"steve", "alex", "zombie", "creeper", "skeleton", "enderman", "villager", "pigman", "witch", "iron_golem">>
CHARACTERS == [k \in Range(CHARACTER_KEYS) |->
    IF k = "steve" THEN [name |-> "Steve", skin |-> <<72, 53, 40>>, shirt |-> <<0, 65, 65>>, pants |-> <<20, 20, 60>>, hair |-> <<25, 15, 10>>, eyes |-> <<30, 20, 50>>, shoes |-> <<30, 30, 30>>, special |-> None] ELSE
    IF k = "alex" THEN [name |-> "Alex", skin |-> <<78, 58, 45>>, shirt |-> <<30, 55, 20>>, pants |-> <<40, 30, 20>>, hair |-> <<85, 45, 15>>, eyes |-> <<20, 50, 20>>, shoes |-> <<35, 25, 15>>, special |-> None] ELSE
    IF k = "zombie" THEN [name |-> "Zombie", skin |-> <<30, 50, 35>>, shirt |-> <<0, 45, 45>>, pants |-> <<15, 15, 40>>, hair |-> <<20, 25, 20>>, eyes |-> <<10, 10, 10>>, shoes |-> <<25, 25, 25>>, special |-> None] ELSE
    IF k = "creeper" THEN [name |-> "Creeper", skin |-> <<30, 65, 30>>, shirt |-> <<25, 55, 25>>, pants |-> <<20, 45, 20>>, hair |-> <<30, 65, 30>>, eyes |-> <<0, 0, 0>>, shoes |-> <<20, 45, 20>>, special |-> "creeper_face"] ELSE
    IF k = "skeleton" THEN [name |-> "Skeleton", skin |-> <<85, 85, 80>>, shirt |-> <<80, 80, 75>>, pants |-> <<75, 75, 70>>, hair |-> <<85, 85, 80>>, eyes |-> <<10, 10, 10>>, shoes |-> <<70, 70, 65>>, special |-> None] ELSE
    IF k = "enderman" THEN [name |-> "Enderman", skin |-> <<10, 10, 12>>, shirt |-> <<8, 8, 10>>, pants |-> <<6, 6, 8>>, hair |-> <<10, 10, 12>>, eyes |-> <<80, 20, 80>>, shoes |-> <<5, 5, 6>>, special |-> "tall"] ELSE
    IF k = "villager" THEN [name |-> "Villager", skin |-> <<72, 55, 42>>, shirt |-> <<50, 35, 20>>, pants |-> <<45, 30, 15>>, hair |-> <<40, 25, 15>>, eyes |-> <<20, 40, 20>>, shoes |-> <<30, 20, 10>>, special |-> "big_nose"] ELSE
    IF k = "pigman" THEN [name |-> "Zombie Piglin", skin |-> <<75, 55, 50>>, shirt |-> <<50, 35, 25>>, pants |-> <<40, 30, 20>>, hair |-> <<30, 20, 15>>, eyes |-> <<80, 10, 10>>, shoes |-> <<35, 25, 15>>, special |-> "pig_snout"] ELSE
    IF k = "witch" THEN [name |-> "Witch", skin |-> <<60, 55, 50>>, shirt |-> <<25, 10, 30>>, pants |-> <<20, 8, 25>>, hair |-> <<30, 30, 30>>, eyes |-> <<50, 10, 50>>, shoes |-> <<15, 5, 20>>, special |-> "witch_hat"] ELSE
    (* k = "iron_golem" *) [name |-> "Iron Golem", skin |-> <<70, 70, 68>>, shirt |-> <<65, 65, 62>>, pants |-> <<60, 60, 58>>, hair |-> <<70, 70, 68>>, eyes |-> <<40, 15, 15>>, shoes |-> <<55, 55, 52>>, special |-> "large"]]

\* ARMOR_TYPES  lines 137-144
ARMOR_TYPES == [k \in {"leather", "chainmail", "iron", "gold", "diamond", "netherite"} |->
    IF k = "leather" THEN <<55, 35, 20>> ELSE
    IF k = "chainmail" THEN <<60, 60, 65>> ELSE
    IF k = "iron" THEN <<75, 75, 72>> ELSE
    IF k = "gold" THEN <<90, 75, 20>> ELSE
    IF k = "diamond" THEN <<30, 85, 85>> ELSE
    (* k = "netherite" *) <<25, 22, 25>>]

\* SHIP_TYPES  lines 28-109
SHIP_TYPES == [k \in {"xwing", "tie", "ywing", "awing", "falcon", "shuttle", "interceptor", "slave1"} |->
    IF k = "xwing" THEN [name |-> "X-Wing Fighter", hull |-> <<85, 85, 80>>, accent |-> <<100, 30, 0>>, engine |-> <<100, 40, 20>>, cockpit |-> <<10, 15, 20>>] ELSE
    IF k = "tie" THEN [name |-> "TIE Fighter", hull |-> <<20, 20, 22>>, accent |-> <<10, 10, 10>>, engine |-> <<0, 50, 100>>, cockpit |-> <<5, 5, 8>>] ELSE
    IF k = "ywing" THEN [name |-> "Y-Wing Bomber", hull |-> <<60, 55, 40>>, accent |-> <<40, 35, 25>>, engine |-> <<0, 70, 100>>, cockpit |-> <<10, 10, 15>>] ELSE
    IF k = "awing" THEN [name |-> "A-Wing Interceptor", hull |-> <<80, 15, 10>>, accent |-> <<90, 90, 85>>, engine |-> <<0, 80, 100>>, cockpit |-> <<10, 10, 12>>] ELSE
    IF k = "falcon" THEN [name |-> "Light Freighter", hull |-> <<60, 58, 55>>, accent |-> <<40, 38, 35>>, engine |-> <<0, 60, 100>>, cockpit |-> <<15, 12, 10>>] ELSE
    IF k = "shuttle" THEN [name |-> "Imperial Shuttle", hull |-> <<85, 85, 88>>, accent |-> <<20, 20, 22>>, engine |-> <<100, 30, 10>>, cockpit |-> <<10, 10, 12>>] ELSE
    IF k = "interceptor" THEN [name |-> "TIE Interceptor", hull |-> <<15, 15, 18>>, accent |-> <<10, 10, 10>>, engine |-> <<0, 60, 100>>, cockpit |-> <<5, 5, 8>>] ELSE
    (* k = "slave1" *) [name |-> "Firespray Gunship", hull |-> <<30, 40, 35>>, accent |-> <<60, 10, 10>>, engine |-> <<100, 50, 0>>, cockpit |-> <<10, 15, 12>>]]

\* SHIP_COLORS  lines 23-54
SHIP_COLOR_KEYS == <<"classic", "rebel", "imperial", "pirate", "alien">>
SHIP_COLORS == [k \in Range(SHIP_COLOR_KEYS) |->
    IF k = "classic" THEN [hull |-> <<70, 70, 75>>, accent |-> <<20, 40, 80>>, engine |-> <<0, 80, 100>>, cockpit |-> <<20, 30, 40>>] ELSE
    IF k = "rebel" THEN [hull |-> <<90, 90, 85>>, accent |-> <<100, 40, 0>>, engine |-> <<100, 30, 10>>, cockpit |-> <<10, 10, 15>>] ELSE
    IF k = "imperial" THEN [hull |-> <<30, 30, 35>>, accent |-> <<10, 10, 10>>, engine |-> <<0, 50, 100>>, cockpit |-> <<5, 5, 10>>] ELSE
    IF k = "pirate" THEN [hull |-> <<40, 20, 10>>, accent |-> <<80, 0, 0>>, engine |-> <<100, 50, 0>>, cockpit |-> <<20, 10, 5>>] ELSE
    (* k = "alien" *) [hull |-> <<20, 50, 30>>, accent |-> <<60, 0, 80>>, engine |-> <<0, 100, 50>>, cockpit |-> <<10, 20, 15>>]]

\* SHIP_THEMES  lines 34-89
SHIP_THEMES == [k \in {"federation", "empire", "bounty_hunter", "alien", "stealth", "racer"} |->
    IF k = "federation" THEN [hull_primary |-> <<85, 85, 90>>, hull_secondary |-> <<60, 60, 65>>, accent |-> <<20, 40, 80>>, engine_glow |-> <<0, 70, 100>>, cockpit |-> <<10, 15, 20>>, weapons |-> <<100, 30, 10>>, lights |-> <<100, 100, 80>>] ELSE
    IF k = "empire" THEN [hull_primary |-> <<20, 20, 22>>, hull_secondary |-> <<10, 10, 12>>, accent |-> <<80, 0, 0>>, engine_glow |-> <<0, 50, 100>>, cockpit |-> <<5, 5, 8>>, weapons |-> <<0, 100, 30>>, lights |-> <<100, 0, 0>>] ELSE
    IF k = "bounty_hunter" THEN [hull_primary |-> <<40, 35, 25>>, hull_secondary |-> <<30, 25, 15>>, accent |-> <<60, 50, 10>>, engine_glow |-> <<100, 50, 0>>, cockpit |-> <<15, 12, 8>>, weapons |-> <<100, 20, 0>>, lights |-> <<100, 80, 40>>] ELSE
    IF k = "alien" THEN [hull_primary |-> <<10, 30, 20>>, hull_secondary |-> <<15, 40, 25>>, accent |-> <<50, 0, 70>>, engine_glow |-> <<0, 100, 50>>, cockpit |-> <<20, 10, 30>>, weapons |-> <<80, 0, 100>>, lights |-> <<0, 100, 80>>] ELSE
    IF k = "stealth" THEN [hull_primary |-> <<5, 5, 8>>, hull_secondary |-> <<8, 8, 10>>, accent |-> <<10, 10, 15>>, engine_glow |-> <<30, 0, 50>>, cockpit |-> <<2, 2, 5>>, weapons |-> <<50, 0, 0>>, lights |-> <<20, 0, 30>>] ELSE
    (* k = "racer" *) [hull_primary |-> <<100, 20, 0>>, hull_secondary |-> <<100, 100, 100>>, accent |-> <<0, 0, 0>>, engine_glow |-> <<0, 80, 100>>, cockpit |-> <<10, 10, 10>>, weapons |-> <<100, 100, 0>>, lights |-> <<100, 100, 100>>]]

\* SHIP_CLASSES  lines 91-99
SHIP_CLASSES == [k \in {"interceptor", "heavy_fighter", "bomber", "corvette", "racer", "transport", "gunship"} |->
    IF k = "interceptor" THEN "Fast, agile fighter with forward-swept wings" ELSE
    IF k = "heavy_fighter" THEN "Balanced combat ship with thick armor" ELSE
    IF k = "bomber" THEN "Heavy ship designed for big payloads" ELSE
    IF k = "corvette" THEN "Small capital ship with multiple decks" ELSE
    IF k = "racer" THEN "Ultra-fast ship built for speed" ELSE
    IF k = "transport" THEN "Cargo hauler with large hold" ELSE
    (* k = "gunship" *) "Heavily armed assault craft"]

\* COLOR_PRESETS of fancy_3d_text.py, lines 29-70
COLOR_PRESETS_V1 == [k \in {"rainbow", "fire", "ice", "neon", "gold", "sunset"} |->
    IF k = "rainbow" THEN <<<<100, 20, 20>>, <<100, 50, 0>>, <<100, 100, 0>>, <<0, 100, 30>>, <<0, 80, 100>>, <<30, 30, 100>>, <<80, 20, 100>>>> ELSE
    IF k = "fire" THEN <<<<100, 90, 0>>, <<100, 60, 0>>, <<100, 20, 0>>, <<80, 0, 0>>>> ELSE
    IF k = "ice" THEN <<<<90, 100, 100>>, <<60, 90, 100>>, <<20, 60, 100>>, <<10, 30, 80>>>> ELSE
    IF k = "neon" THEN <<<<100, 0, 50>>, <<0, 100, 100>>, <<50, 0, 100>>, <<0, 100, 50>>>> ELSE
    IF k = "gold" THEN <<<<100, 95, 60>>, <<100, 84, 0>>, <<85, 65, 13>>, <<72, 53, 4>>>> ELSE
    (* k = "sunset" *) <<<<100, 40, 40>>, <<100, 60, 20>>, <<100, 80, 40>>, <<80, 40, 60>>, <<50, 30, 70>>>>]

\* COLOR_PRESETS of fancy_3d_text_v2.py, lines 24-70
COLOR_PRESETS_V2 == [k \in {"rainbow", "fire", "ocean", "neon", "gold", "forest"} |->
    IF k = "rainbow" THEN <<<<100, 0, 0>>, <<100, 50, 0>>, <<100, 100, 0>>, <<0, 100, 0>>, <<0, 50, 100>>, <<0, 0, 100>>, <<50, 0, 100>>, <<100, 0, 50>>>> ELSE
    IF k = "fire" THEN <<<<100, 0, 0>>, <<100, 30, 0>>, <<100, 50, 0>>, <<100, 70, 0>>, <<100, 100, 0>>>> ELSE
    IF k = "ocean" THEN <<<<0, 20, 40>>, <<0, 40, 60>>, <<0, 60, 80>>, <<0, 80, 80>>, <<50, 100, 100>>>> ELSE
    IF k = "neon" THEN <<<<100, 0, 50>>, <<0, 100, 100>>, <<100, 100, 0>>, <<0, 100, 0>>, <<100, 0, 100>>>> ELSE
    IF k = "gold" THEN <<<<100, 84, 0>>, <<85, 65, 13>>, <<100, 75, 0>>, <<96, 87, 70>>, <<100, 94, 0>>>> ELSE
    (* k = "forest" *) <<<<13, 55, 13>>, <<0, 39, 0>>, <<18, 55, 34>>, <<56, 74, 56>>, <<49, 99, 0>>>>]


(***************************************************************************)
(* The host's scene commands, as far as the generators use them.           *)
(***************************************************************************)
EmptyHost == [scene |-> <<>>, mats |-> <<>>, keys |-> {}]

\* Prefix of the name the host gives a primitive created without a name.
DefaultPrefix(kind) ==
    CASE kind = "polyCube" -> "pCube"
      [] kind = "polySphere" -> "pSphere"
      [] kind = "polyCylinder" -> "pCylinder"
      [] kind = "polyCone" -> "pCone"
      [] kind = "polyTorus" -> "pTorus"
      [] kind = "polyPlane" -> "pPlane"
      [] kind = "polyPrism" -> "pPrism"
      [] kind = "polyUnite" -> "polySurface"
      [] kind = "typeMesh" -> "typeMesh"
      [] OTHER -> "transform"
DefaultName(h, kind) ==
    DefaultPrefix(kind) \o
    Str(1 + Cardinality({i \in DOMAIN h.scene : h.scene[i].kind = kind /\ ~h.scene[i].named}))

\* cmds.polyCube / polySphere / ... : a new node at world level.  name = None
\* stands for a call without the name flag.
NewNode(h, kind, name) ==
    [h EXCEPT !.scene = Append(@,
        [name |-> IF name = None THEN DefaultName(h, kind) ELSE name,
         named |-> name # None, kind |-> kind, parent |-> 0,
         sg |-> "initialShadingGroup", pos |-> <<0, 0, 0>>, rot |-> <<0, 0, 0>>])]
\* The handle of the node the last NewNode made.
LastNode(h) == Len(h.scene)

\* cmds.parent(child, group)
ParentTo(h, child, group) == [h EXCEPT !.scene[child].parent = group]
\* cmds.parent on every node of a list.
ParentAll(h, children, group) ==
    [h EXCEPT !.scene = [i \in DOMAIN @ |->
        IF i \in Range(children) THEN [@[i] EXCEPT !.parent = group] ELSE @[i]]]
\* cmds.group(empty=True, name=...) and cmds.group(members, name=...)
GroupEmpty(h, name) == NewNode(h, "transform", name)
GroupOf(h, members, name) ==
    LET g == GroupEmpty(h, name) IN ParentAll(g, members, LastNode(g))

\* cmds.move(x, y, z, node), cmds.rotate(x, y, z, node)
Move(h, node, pos) == [h EXCEPT !.scene[node].pos = pos]
Rotate(h, node, rot) == [h EXCEPT !.scene[node].rot = rot]
\* cmds.sets(node, edit=True, forceElement=sg)
AssignSG(h, node, sg) == [h EXCEPT !.scene[node].sg = sg]
\* cmds.objExists(name)
ObjExists(h, name) ==
    \/ \E i \in DOMAIN h.scene : h.scene[i].name = name
    \/ \E i \in DOMAIN h.mats : h.mats[i].name = name \/ h.mats[i].sg = name
\* cmds.shadingNode + cmds.sets(renderable=True, ...) + setAttr colour and
\* incandescence: one shading network.  factor is the share of the colour put
\* into incandescence, 0 when the code leaves the attribute alone.
NewMaterial(h, shader, name, sg, color, factor) ==
    [h EXCEPT !.mats = Append(@,
        [name |-> name, sg |-> sg, shader |-> shader, color |-> color,
         incandescence |-> [c \in DOMAIN color |-> (color[c] * factor) \div 100]])]
\* cmds.setKeyframe(node, attribute=..., value=..., time=...): a key at a time
\* that already has one replaces it.
SetKeyframe(h, node, attr, time, value) ==
    [h EXCEPT !.keys =
        {k \in @ : ~(k.node = node /\ k.attr = attr /\ k.time = time)}
        \cup {[node |-> node, attr |-> attr, time |-> time, value |-> value]}]
\* cmds.listRelatives(node, children=True), in creation order.
Children(h, node) ==
    SelectSeq([i \in 1..Len(h.scene) |-> i], LAMBDA i : h.scene[i].parent = node)

(***************************************************************************)
(* A builder is the list of host calls it makes, in the order of its code. *)
(* Run walks such a list.  env is the builder's local state: sg and obj    *)
(* bind the builder's variables to shading groups and nodes, parts is its  *)
(* list of collected parts, group the group it was handed.                 *)
(***************************************************************************)
NewEnv(group) == [sg |-> <<>>, obj |-> <<>>, parts |-> <<>>, group |-> group]

\* create_material(name, color, emission) of starwars_fleet.py
create_material_sw(h, name, color, emission) ==
    [h |-> NewMaterial(h, "lambert", name \o "_mat", name \o "_SG", color, emission),
     ret |-> name \o "_SG"]
\* A material made anew whatever the scene holds.
create_material_mc_anew(h, name, color, emission) ==
    [h |-> NewMaterial(h, "lambert", name \o "_mat", name \o "_SG", color, emission),
     ret |-> name \o "_SG"]
\* create_material(name, color, emission) of minecraft_characters.py: a
\* material of that name already in the scene is reused.
create_material_mc(h, name, color, emission) ==
    IF ObjExists(h, name \o "_mat")
    THEN [h |-> h, ret |-> name \o "_SG"]
    ELSE [h |-> NewMaterial(h, "lambert", name \o "_mat", name \o "_SG", color, emission),
          ret |-> name \o "_SG"]
\* create_material(name, color, ..., glow) of starship_v2.py
create_material_v2(h, name, color, glow) ==
    [h |-> NewMaterial(h, "blinn", name, name \o "_SG", color, glow),
     ret |-> name \o "_SG"]
\* apply_material(obj, color, name, transparency, glow) of starship.py: a new
\* blinn for every part; a glowing part gets 0.8 of its colour as incandescence.
apply_material(h, obj, color, name, transparency, glow) ==
    AssignSG(NewMaterial(h, "blinn", name, name \o "_SG", color, IF glow THEN 80 ELSE 0),
             obj, name \o "_SG")

\* The steps.
Mat(var, name, color, emission) ==
    [op |-> "mat_sw", var |-> var, name |-> name, color |-> color, emission |-> emission]
McMat(var, name, color) ==
    [op |-> "mat_mc", var |-> var, name |-> name, color |-> color, emission |-> 0]
Mat2(var, name, color, glow) ==
    [op |-> "mat_v2", var |-> var, name |-> name, color |-> color, emission |-> glow]
Prim(var, kind, name) == [op |-> "prim", var |-> var, kind |-> kind, name |-> name]
Assign(var, mat) == [op |-> "assign", var |-> var, mat |-> mat]
Keep(var) == [op |-> "keep", var |-> var]
Turn(var, rot) == [op |-> "rotate", var |-> var, rot |-> rot]
Apply(var, name, color, transparency, glow) ==
    [op |-> "apply", var |-> var, name |-> name, color |-> color,
     transparency |-> transparency, glow |-> glow]
Parent(var) == [op |-> "parent", var |-> var]
\* Create a named primitive, assign its material, collect it if the builder does.
Part(kind, name, mat, keep) ==
    [op |-> "part", kind |-> kind, name |-> name, mat |-> mat, keep |-> keep]
\* Create an unnamed primitive bound to var and assign its material.
Part2(var, kind, mat, keep) ==
    [op |-> "part2", var |-> var, kind |-> kind, mat |-> mat, keep |-> keep]

Bind(f, var, val) == (var :> val) @@ f

Exec(h, env, s) ==
    CASE s.op \in {"mat_sw", "mat_mc", "mat_v2"} ->
            LET r == CASE s.op = "mat_sw" -> create_material_sw(h, s.name, s.color, s.emission)
                       [] s.op = "mat_mc" -> create_material_mc(h, s.name, s.color, s.emission)
                       [] OTHER -> create_material_v2(h, s.name, s.color, s.emission)
            IN [h |-> r.h, env |-> [env EXCEPT !.sg = Bind(@, s.var, r.ret)]]
      [] s.op = "prim" ->
            LET h1 == NewNode(h, s.kind, s.name)
            IN [h |-> h1, env |-> [env EXCEPT !.obj = Bind(@, s.var, LastNode(h1))]]
      [] s.op = "assign" -> [h |-> AssignSG(h, env.obj[s.var], env.sg[s.mat]), env |-> env]
      [] s.op = "keep" -> [h |-> h, env |-> [env EXCEPT !.parts = Append(@, env.obj[s.var])]]
      [] s.op = "rotate" -> [h |-> Rotate(h, env.obj[s.var], s.rot), env |-> env]
      [] s.op = "apply" ->
            [h |-> apply_material(h, env.obj[s.var], s.color, s.name, s.transparency, s.glow),
             env |-> env]
      [] s.op = "parent" -> [h |-> ParentTo(h, env.obj[s.var], env.group), env |-> env]
      [] s.op = "part" ->
            LET h1 == NewNode(h, s.kind, s.name)
            IN [h |-> AssignSG(h1, LastNode(h1), env.sg[s.mat]),
                env |-> IF s.keep THEN [env EXCEPT !.parts = Append(@, LastNode(h1))] ELSE env]
      [] s.op = "part2" ->
            LET h1 == NewNode(h, s.kind, None)
            IN [h |-> AssignSG(h1, LastNode(h1), env.sg[s.mat]),
                env |-> [env EXCEPT !.obj = Bind(@, s.var, LastNode(h1)),
                                    !.parts = IF s.keep THEN Append(@, LastNode(h1)) ELSE @]]

\* Steps lo..hi of the list, in order: the first half, then the second.
RECURSIVE RunFrom(_, _, _, _)
RunFrom(st, steps, lo, hi) ==
    IF lo > hi THEN st
    ELSE IF lo = hi THEN Exec(st.h, st.env, steps[lo])
    ELSE LET mid == (lo + hi) \div 2
             half == RunFrom(st, steps, lo, mid)
         IN With(half, RunFrom(half, steps, mid + 1, hi))
Run(h, env, steps) == RunFrom([h |-> h, env |-> env], steps, 1, Len(steps))

(***************************************************************************)
(* The ship builders: starwars_fleet.py (named parts, returned as a list),  *)
(* starship.py (unnamed parts, one material each, parented at the end) and *)
(* starship_v2.py (unnamed parts parented as the code goes).               *)
(***************************************************************************)
\* build_xwing of starwars_fleet.py
build_xwing(name, colors) == <<
    Mat("hull", name \o "_hull", colors.hull, 0),
    Mat("accent", name \o "_accent", colors.accent, 0),
    Mat("engine", name \o "_engine", colors.engine, 80),
    Mat("cockpit", name \o "_cockpit", colors.cockpit, 0),
    Part("polyCylinder", name \o "_fuselage", "hull", TRUE),
    Part("polyCone", name \o "_nose", "hull", TRUE),
    Part("polySphere", name \o "_cockpit", "cockpit", TRUE),
    Part("polyCube", name \o "_wing_0", "hull", TRUE),
    Part("polyCylinder", name \o "_engine_0", "hull", TRUE),
    Part("polyCylinder", name \o "_glow_0", "engine", TRUE),
    Part("polyCylinder", name \o "_cannon_0", "accent", TRUE),
    Part("polyCube", name \o "_wing_1", "hull", TRUE),
    Part("polyCylinder", name \o "_engine_1", "hull", TRUE),
    Part("polyCylinder", name \o "_glow_1", "engine", TRUE),
    Part("polyCylinder", name \o "_cannon_1", "accent", TRUE),
    Part("polyCube", name \o "_wing_2", "hull", TRUE),
    Part("polyCylinder", name \o "_engine_2", "hull", TRUE),
    Part("polyCylinder", name \o "_glow_2", "engine", TRUE),
    Part("polyCylinder", name \o "_cannon_2", "accent", TRUE),
    Part("polyCube", name \o "_wing_3", "hull", TRUE),
    Part("polyCylinder", name \o "_engine_3", "hull", TRUE),
    Part("polyCylinder", name \o "_glow_3", "engine", TRUE),
    Part("polyCylinder", name \o "_cannon_3", "accent", TRUE),
    Part("polyCube", name \o "_stripe", "accent", TRUE),
    Part("polyCylinder", name \o "_droid", "accent", TRUE) >>

\* build_tie of starwars_fleet.py
build_tie(name, colors) == <<
    Mat("hull", name \o "_hull", colors.hull, 0),
    Mat("accent", name \o "_accent", colors.accent, 0),
    Mat("engine", name \o "_engine", colors.engine, 80),
    Mat("cockpit", name \o "_cockpit", colors.cockpit, 0),
    Part("polySphere", name \o "_cockpit", "hull", TRUE),
    Part("polyCylinder", name \o "_window", "cockpit", TRUE),
    Part("polyCylinder", name \o "_strut_-1", "accent", TRUE),
    Part("polyCylinder", name \o "_strut_1", "accent", TRUE),
    Part("polyPipe", name \o "_wing_-1", "hull", TRUE),
    Part("polyCylinder", name \o "_panel_-1", "accent", TRUE),
    Part("polyCube", name \o "_line_-1_0", "hull", TRUE),
    Part("polyCube", name \o "_line_-1_1", "hull", TRUE),
    Part("polyCube", name \o "_line_-1_2", "hull", TRUE),
    Part("polyPipe", name \o "_wing_1", "hull", TRUE),
    Part("polyCylinder", name \o "_panel_1", "accent", TRUE),
    Part("polyCube", name \o "_line_1_0", "hull", TRUE),
    Part("polyCube", name \o "_line_1_1", "hull", TRUE),
    Part("polyCube", name \o "_line_1_2", "hull", TRUE),
    Part("polySphere", name \o "_engine", "engine", TRUE) >>

\* build_ywing of starwars_fleet.py
build_ywing(name, colors) == <<
    Mat("hull", name \o "_hull", colors.hull, 0),
    Mat("accent", name \o "_accent", colors.accent, 0),
    Mat("engine", name \o "_engine", colors.engine, 80),
    Mat("cockpit", name \o "_cockpit", colors.cockpit, 0),
    Part("polyCylinder", name \o "_body", "hull", TRUE),
    Part("polySphere", name \o "_canopy", "cockpit", TRUE),
    Part("polyCone", name \o "_nose", "hull", TRUE),
    Part("polyCylinder", name \o "_nacelle_-1", "accent", TRUE),
    Part("polyTorus", name \o "_intake_-1", "hull", TRUE),
    Part("polyCylinder", name \o "_glow_-1", "engine", TRUE),
    Part("polyCube", name \o "_strut_-1", "hull", TRUE),
    Part("polyCylinder", name \o "_nacelle_1", "accent", TRUE),
    Part("polyTorus", name \o "_intake_1", "hull", TRUE),
    Part("polyCylinder", name \o "_glow_1", "engine", TRUE),
    Part("polyCube", name \o "_strut_1", "hull", TRUE),
    Part("polyCylinder", name \o "_turret_base", "hull", TRUE),
    Part("polyCylinder", name \o "_turret_gun", "accent", TRUE) >>

\* build_awing of starwars_fleet.py
build_awing(name, colors) == <<
    Mat("hull", name \o "_hull", colors.hull, 0),
    Mat("accent", name \o "_accent", colors.accent, 0),
    Mat("engine", name \o "_engine", colors.engine, 80),
    Mat("cockpit", name \o "_cockpit", colors.cockpit, 0),
    Part("polyCube", name \o "_body", "hull", TRUE),
    Part("polyCube", name \o "_cockpit", "cockpit", TRUE),
    Part("polyCylinder", name \o "_engine_-1", "hull", TRUE),
    Part("polyCylinder", name \o "_glow_-1", "engine", TRUE),
    Part("polyCylinder", name \o "_engine_1", "hull", TRUE),
    Part("polyCylinder", name \o "_glow_1", "engine", TRUE),
    Part("polyCylinder", name \o "_cannon_-1", "accent", TRUE),
    Part("polyCylinder", name \o "_cannon_1", "accent", TRUE),
    Part("polyCube", name \o "_stripe", "accent", TRUE) >>

\* build_falcon of starwars_fleet.py
build_falcon(name, colors) == <<
    Mat("hull", name \o "_hull", colors.hull, 0),
    Mat("accent", name \o "_accent", colors.accent, 0),
    Mat("engine", name \o "_engine", colors.engine, 80),
    Mat("cockpit", name \o "_cockpit", colors.cockpit, 0),
    Part("polyCylinder", name \o "_body", "hull", TRUE),
    Part("polyCube", name \o "_mandible_-1", "hull", TRUE),
    Part("polyCube", name \o "_mandible_1", "hull", TRUE),
    Part("polyCube", name \o "_gap", "accent", TRUE),
    Part("polyCylinder", name \o "_cockpit_tube", "hull", TRUE),
    Part("polySphere", name \o "_cockpit", "cockpit", TRUE),
    Part("polyCylinder", name \o "_dish", "hull", TRUE),
    Part("polyCylinder", name \o "_dish_arm", "accent", TRUE),
    Part("polyCylinder", name \o "_engine_0", "hull", TRUE),
    Part("polyCylinder", name \o "_engine_glow_0", "engine", TRUE),
    Part("polyCylinder", name \o "_engine_1", "hull", TRUE),
    Part("polyCylinder", name \o "_engine_glow_1", "engine", TRUE),
    Part("polyCylinder", name \o "_engine_2", "hull", TRUE),
    Part("polyCylinder", name \o "_engine_glow_2", "engine", TRUE),
    Part("polySphere", name \o "_turret", "hull", TRUE),
    Part("polyCylinder", name \o "_turret_gun", "accent", TRUE),
    Part("polyCube", name \o "_detail_0", "accent", TRUE),
    Part("polyCube", name \o "_detail_1", "accent", TRUE),
    Part("polyCube", name \o "_detail_2", "accent", TRUE),
    Part("polyCube", name \o "_detail_3", "accent", TRUE),
    Part("polyCube", name \o "_detail_4", "accent", TRUE) >>

\* build_shuttle of starwars_fleet.py
build_shuttle(name, colors) == <<
    Mat("hull", name \o "_hull", colors.hull, 0),
    Mat("accent", name \o "_accent", colors.accent, 0),
    Mat("engine", name \o "_engine", colors.engine, 80),
    Mat("cockpit", name \o "_cockpit", colors.cockpit, 0),
    Part("polyCube", name \o "_body", "hull", TRUE),
    Part("polyCube", name \o "_nose", "hull", TRUE),
    Part("polyCube", name \o "_window_-1", "cockpit", TRUE),
    Part("polyCube", name \o "_window_1", "cockpit", TRUE),
    Part("polyCube", name \o "_dorsal", "hull", TRUE),
    Part("polyCube", name \o "_wing_-1", "hull", TRUE),
    Part("polyCube", name \o "_wing_1", "hull", TRUE),
    Part("polyCube", name \o "_engine_block", "accent", TRUE),
    Part("polyCylinder", name \o "_glow_0", "engine", TRUE),
    Part("polyCylinder", name \o "_glow_1", "engine", TRUE),
    Part("polyCylinder", name \o "_glow_2", "engine", TRUE) >>

\* build_interceptor of starwars_fleet.py
build_interceptor_sw(name, colors) == <<
    Mat("hull", name \o "_hull", colors.hull, 0),
    Mat("accent", name \o "_accent", colors.accent, 0),
    Mat("engine", name \o "_engine", colors.engine, 80),
    Mat("cockpit", name \o "_cockpit", colors.cockpit, 0),
    Part("polySphere", name \o "_cockpit", "hull", TRUE),
    Part("polyCylinder", name \o "_window", "cockpit", TRUE),
    Part("polyCylinder", name \o "_strut_-1", "accent", TRUE),
    Part("polyCylinder", name \o "_strut_1", "accent", TRUE),
    Part("polyCube", name \o "_wing_-1", "hull", TRUE),
    Part("polyCylinder", name \o "_cannon_-1_1.2", "accent", TRUE),
    Part("polyCylinder", name \o "_cannon_-1_-1.2", "accent", TRUE),
    Part("polyCube", name \o "_wing_1", "hull", TRUE),
    Part("polyCylinder", name \o "_cannon_1_1.2", "accent", TRUE),
    Part("polyCylinder", name \o "_cannon_1_-1.2", "accent", TRUE),
    Part("polySphere", name \o "_engine", "engine", TRUE) >>

\* build_slave1 of starwars_fleet.py
build_slave1(name, colors) == <<
    Mat("hull", name \o "_hull", colors.hull, 0),
    Mat("accent", name \o "_accent", colors.accent, 0),
    Mat("engine", name \o "_engine", colors.engine, 80),
    Mat("cockpit", name \o "_cockpit", colors.cockpit, 0),
    Part("polyCube", name \o "_body", "hull", TRUE),
    Part("polyCylinder", name \o "_front", "hull", TRUE),
    Part("polySphere", name \o "_cockpit", "cockpit", TRUE),
    Part("polyCube", name \o "_wing_-1", "hull", TRUE),
    Part("polyCone", name \o "_tip_-1", "accent", TRUE),
    Part("polyCube", name \o "_wing_1", "hull", TRUE),
    Part("polyCone", name \o "_tip_1", "accent", TRUE),
    Part("polyCylinder", name \o "_engine_0", "hull", TRUE),
    Part("polyCylinder", name \o "_glow_0", "engine", TRUE),
    Part("polyCylinder", name \o "_engine_1", "hull", TRUE),
    Part("polyCylinder", name \o "_glow_1", "engine", TRUE),
    Part("polyCylinder", name \o "_engine_2", "hull", TRUE),
    Part("polyCylinder", name \o "_glow_2", "engine", TRUE),
    Part("polyCylinder", name \o "_weapon_-1", "accent", TRUE),
    Part("polyCylinder", name \o "_weapon_1", "accent", TRUE),
    Part("polyCube", name \o "_stripe", "accent", TRUE) >>

\* build_fighter of starship.py
build_fighter(colors) == <<
    Prim("p1", "polyCylinder", None), Apply("p1", "hull_mat", colors.hull, 0, FALSE),
    Prim("p2", "polyCone", None), Apply("p2", "nose_mat", colors.hull, 0, FALSE),
    Prim("p3", "polySphere", None), Apply("p3", "cockpit_mat", colors.cockpit, 30, FALSE),
    Prim("p4", "polyCube", None), Apply("p4", "wing_l_mat", colors.accent, 0, FALSE),
    Prim("p5", "polyCube", None), Apply("p5", "wing_r_mat", colors.accent, 0, FALSE),
    Prim("p6", "polyCylinder", None), Apply("p6", "engine_l_mat", colors.hull, 0, FALSE),
    Prim("p7", "polyCylinder", None), Apply("p7", "engine_r_mat", colors.hull, 0, FALSE),
    Prim("p8", "polySphere", None), Apply("p8", "glow_l_mat", colors.engine, 0, TRUE),
    Prim("p9", "polySphere", None), Apply("p9", "glow_r_mat", colors.engine, 0, TRUE),
    Prim("p10", "polyCylinder", None), Apply("p10", "weapon_l_mat", colors.accent, 0, FALSE),
    Prim("p11", "polyCylinder", None), Apply("p11", "weapon_r_mat", colors.accent, 0, FALSE),
    Parent("p1"), Parent("p2"), Parent("p3"), Parent("p4"), Parent("p5"), Parent("p6"),
    Parent("p7"), Parent("p8"), Parent("p9"), Parent("p10"), Parent("p11") >>

\* build_cruiser of starship.py
build_cruiser(colors) == <<
    Prim("p1", "polyCube", None), Apply("p1", "hull_mat", colors.hull, 0, FALSE),
    Prim("p2", "polyCube", None), Apply("p2", "bridge_mat", colors.accent, 0, FALSE),
    Prim("p3", "polyCube", None), Apply("p3", "windows_mat", colors.cockpit, 30, FALSE),
    Prim("p4", "polyCube", None), Apply("p4", "engine_block_mat", colors.hull, 0, FALSE),
    Prim("p5", "polyCylinder", None), Apply("p5", "eng_0_mat", colors.engine, 0, TRUE),
    Prim("p6", "polyCylinder", None), Apply("p6", "eng_1_mat", colors.engine, 0, TRUE),
    Prim("p7", "polyCylinder", None), Apply("p7", "eng_2_mat", colors.engine, 0, TRUE),
    Prim("p8", "polyCube", None), Apply("p8", "hangar_l_mat", colors.accent, 0, FALSE),
    Prim("p9", "polyCube", None), Apply("p9", "hangar_r_mat", colors.accent, 0, FALSE),
    Prim("p10", "polyCylinder", None), Apply("p10", "antenna_mat", colors.hull, 0, FALSE),
    Parent("p1"), Parent("p2"), Parent("p3"), Parent("p4"), Parent("p8"), Parent("p9"),
    Parent("p10"), Parent("p5"), Parent("p6"), Parent("p7") >>

\* build_bomber of starship.py
build_bomber(colors) == <<
    Prim("p1", "polyCube", None), Apply("p1", "body_mat", colors.hull, 0, FALSE),
    Prim("p2", "polyCube", None), Apply("p2", "bay_mat", colors.accent, 0, FALSE),
    Prim("p3", "polySphere", None), Apply("p3", "cockpit_mat", colors.cockpit, 30, FALSE),
    Prim("p4", "polyCube", None), Apply("p4", "fin_l_mat", colors.accent, 0, FALSE),
    Prim("p5", "polyCube", None), Apply("p5", "fin_r_mat", colors.accent, 0, FALSE),
    Prim("p6", "polyCylinder", None), Apply("p6", "eng_0_mat", colors.engine, 0, TRUE),
    Prim("p7", "polyCylinder", None), Apply("p7", "eng_1_mat", colors.engine, 0, TRUE),
    Prim("p8", "polyCylinder", None), Apply("p8", "eng_2_mat", colors.engine, 0, TRUE),
    Prim("p9", "polyCylinder", None), Apply("p9", "eng_3_mat", colors.engine, 0, TRUE),
    Prim("p10", "polyCylinder", None), Apply("p10", "turret_base_mat", colors.hull, 0, FALSE),
    Prim("p11", "polyCylinder", None), Apply("p11", "turret_gun_mat", colors.accent, 0, FALSE),
    Parent("p1"), Parent("p2"), Parent("p3"), Parent("p4"), Parent("p5"), Parent("p10"),
    Parent("p11"), Parent("p6"), Parent("p7"), Parent("p8"), Parent("p9") >>

\* build_scout of starship.py
build_scout(colors) == <<
    Prim("p1", "polySphere", None), Apply("p1", "body_mat", colors.hull, 0, FALSE),
    Prim("p2", "polySphere", None), Apply("p2", "cockpit_mat", colors.cockpit, 40, FALSE),
    Prim("p3", "polyPrism", None), Apply("p3", "wing_l_mat", colors.accent, 0, FALSE),
    Prim("p4", "polyPrism", None), Apply("p4", "wing_r_mat", colors.accent, 0, FALSE),
    Prim("p5", "polyCone", None), Apply("p5", "engine_mat", colors.hull, 0, FALSE),
    Prim("p6", "polySphere", None), Apply("p6", "glow_mat", colors.engine, 0, TRUE),
    Prim("p7", "polyCylinder", None), Apply("p7", "sensor_mat", colors.accent, 0, FALSE),
    Parent("p1"), Parent("p2"), Parent("p3"), Parent("p4"), Parent("p5"), Parent("p6"),
    Parent("p7") >>

\* build_interceptor of starship_v2.py
build_interceptor(group, colors) == <<
    Mat2("hull", group \o "_hull_mat", colors.hull_primary, 0),
    Mat2("hull2", group \o "_hull2_mat", colors.hull_secondary, 0),
    Mat2("accent", group \o "_accent_mat", colors.accent, 0),
    Mat2("glow", group \o "_glow_mat", colors.engine_glow, 100),
    Mat2("cockpit", group \o "_cockpit_mat", colors.cockpit, 0),
    Mat2("weapon", group \o "_weapon_mat", colors.weapons, 30),
    Part2("p1", "polyCone", "hull", TRUE), Part2("p2", "polyCylinder", "hull", TRUE),
    Part2("p3", "polyCylinder", "hull2", TRUE), Part2("p4", "polySphere", "cockpit", TRUE),
    Part2("p5", "polyCube", "accent", TRUE), Part2("p6", "polyCube", "accent", TRUE),
    Part2("p7", "polyCube", "accent", TRUE), Part2("p8", "polyCube", "hull", TRUE),
    Part2("p9", "polyCone", "accent", TRUE), Part2("p10", "polyCube", "accent", TRUE),
    Part2("p11", "polyCube", "hull", TRUE), Part2("p12", "polyCone", "accent", TRUE),
    Part2("p13", "polyCube", "accent", TRUE), Part2("p14", "polyCylinder", "hull2", TRUE),
    Part2("p15", "polyTorus", "accent", TRUE), Part2("p16", "polySphere", "glow", TRUE),
    Part2("p17", "polyTorus", "glow", TRUE), Part2("p18", "polyCylinder", "hull2", TRUE),
    Part2("p19", "polyTorus", "accent", TRUE), Part2("p20", "polySphere", "glow", TRUE),
    Part2("p21", "polyTorus", "glow", TRUE), Part2("p22", "polyCylinder", "weapon", TRUE),
    Part2("p23", "polyCube", "hull2", TRUE), Part2("p24", "polyCylinder", "weapon", TRUE),
    Part2("p25", "polyCube", "hull2", TRUE), Part2("p26", "polyCube", "accent", TRUE),
    Part2("p27", "polyCube", "hull2", TRUE), Part2("p28", "polyCube", "hull2", TRUE),
    Part2("p29", "polySphere", "accent", TRUE), Part2("p30", "polyCube", "hull2", TRUE),
    Part2("p31", "polyCube", "hull2", TRUE), Part2("p32", "polyCube", "hull2", TRUE),
    Parent("p1"), Parent("p2"), Parent("p3"), Parent("p4"), Parent("p5"), Parent("p6"),
    Parent("p7"), Parent("p8"), Parent("p9"), Parent("p10"), Parent("p11"), Parent("p12"),
    Parent("p13"), Parent("p14"), Parent("p15"), Parent("p16"), Parent("p17"), Parent("p18"),
    Parent("p19"), Parent("p20"), Parent("p21"), Parent("p22"), Parent("p23"), Parent("p24"),
    Parent("p25"), Parent("p26"), Parent("p27"), Parent("p28"), Parent("p29"), Parent("p30"),
    Parent("p31"), Parent("p32") >>

\* build_heavy_fighter of starship_v2.py
build_heavy_fighter(group, colors) == <<
    Mat2("hull", group \o "_hull_mat", colors.hull_primary, 0),
    Mat2("armor", group \o "_armor_mat", colors.hull_secondary, 0),
    Mat2("accent", group \o "_accent_mat", colors.accent, 0),
    Mat2("glow", group \o "_glow_mat", colors.engine_glow, 100),
    Mat2("cockpit", group \o "_cockpit_mat", colors.cockpit, 0),
    Mat2("weapon", group \o "_weapon_mat", colors.weapons, 40),
    Part2("p1", "polyCube", "hull", TRUE), Part2("p2", "polyCube", "armor", TRUE),
    Part2("p3", "polyCone", "armor", TRUE), Part2("p4", "polySphere", "cockpit", TRUE),
    Part2("p5", "polyCube", "hull", TRUE), Part2("p6", "polyCube", "armor", TRUE),
    Part2("p7", "polyCube", "hull", TRUE), Part2("p8", "polyCube", "armor", TRUE),
    Part2("p9", "polyCylinder", "armor", TRUE), Part2("p10", "polySphere", "glow", TRUE),
    Part2("p11", "polyCylinder", "armor", TRUE), Part2("p12", "polySphere", "glow", TRUE),
    Part2("p13", "polyCylinder", "armor", TRUE), Part2("p14", "polySphere", "glow", TRUE),
    Part2("p15", "polyCylinder", "weapon", TRUE), Part2("p16", "polyCylinder", "weapon", TRUE),
    Part2("p17", "polyCube", "armor", TRUE), Part2("p18", "polyCylinder", "weapon", TRUE),
    Part2("p19", "polyCylinder", "weapon", TRUE), Part2("p20", "polyCube", "armor", TRUE),
    Parent("p1"), Parent("p2"), Parent("p3"), Parent("p4"), Parent("p5"), Parent("p6"),
    Parent("p7"), Parent("p8"), Parent("p9"), Parent("p10"), Parent("p11"), Parent("p12"),
    Parent("p13"), Parent("p14"), Parent("p15"), Parent("p16"), Parent("p17"), Parent("p18"),
    Parent("p19"), Parent("p20") >>

\* build_racer of starship_v2.py
build_racer(group, colors) == <<
    Mat2("hull", group \o "_hull_mat", colors.hull_primary, 0),
    Mat2("stripe", group \o "_stripe_mat", colors.hull_secondary, 0),
    Mat2("accent", group \o "_accent_mat", colors.accent, 0),
    Mat2("glow", group \o "_glow_mat", colors.engine_glow, 120),
    Mat2("cockpit", group \o "_cockpit_mat", colors.cockpit, 0),
    Part2("p1", "polyCylinder", "hull", TRUE), Part2("p2", "polyCone", "hull", TRUE),
    Part2("p3", "polyCube", "stripe", TRUE), Part2("p4", "polySphere", "cockpit", TRUE),
    Part2("p5", "polyCylinder", "hull", TRUE), Part2("p6", "polyCube", "accent", TRUE),
    Part2("p7", "polySphere", "glow", TRUE), Part2("p8", "polyTorus", "glow", TRUE),
    Part2("p9", "polyTorus", "glow", TRUE), Part2("p10", "polyTorus", "glow", TRUE),
    Part2("p11", "polyCylinder", "hull", TRUE), Part2("p12", "polyCube", "accent", TRUE),
    Part2("p13", "polySphere", "glow", TRUE), Part2("p14", "polyTorus", "glow", TRUE),
    Part2("p15", "polyTorus", "glow", TRUE), Part2("p16", "polyTorus", "glow", TRUE),
    Part2("p17", "polyCube", "hull", TRUE), Part2("p18", "polyCube", "accent", TRUE),
    Part2("p19", "polyCube", "hull", TRUE), Part2("p20", "polyCube", "accent", TRUE),
    Part2("p21", "polyCube", "accent", TRUE), Parent("p1"), Parent("p2"), Parent("p3"),
    Parent("p4"), Parent("p5"), Parent("p6"), Parent("p7"), Parent("p8"), Parent("p9"),
    Parent("p10"), Parent("p11"), Parent("p12"), Parent("p13"), Parent("p14"), Parent("p15"),
    Parent("p16"), Parent("p17"), Parent("p18"), Parent("p19"), Parent("p20"), Parent("p21") >>

(***************************************************************************)
(* Results of a call, the random source and the placement values.          *)
(***************************************************************************)
Ok(h, ret) == [h |-> h, ret |-> ret, raised |-> None]
Raise(h, exc) == [h |-> h, ret |-> NoNode, raised |-> exc]

\* The random module: a stream is the sequence of values random() returns, in
\* hundredths, repeated cyclically; draw k of a call reads element k.
Rnd(stream, k) == stream[((k - 1) % Len(stream)) + 1]
\* random.uniform(a, b), random.randint(a, b), random.choice(seq)
Uniform(q, a, b) == a + ((b - a) * q) \div 100
RandInt(q, a, b) == a + (q * (b - a + 1)) \div 100
Choice(q, seq) == seq[((q * Len(seq)) \div 100) + 1]

RECURSIVE GCD(_, _)
GCD(a, b) == IF b = 0 THEN a ELSE GCD(b, a % b)
Abs(x) == IF x < 0 THEN -x ELSE x
\* The fraction of the next numerator.
FracOfNext(num, den) == LET g == GCD(Abs(num + 1), den) IN <<(num + 1) \div g, den \div g>>
\* The fraction num/den of a full turn, in lowest terms: the angle
\* 360 * num / den degrees, kept exact.
Frac(num, den) == LET g == GCD(Abs(num), den) IN <<num \div g, den \div g>>
\* The point (radius * cos(angle) * sx, y, radius * sin(angle) * sz).
OnCircle(radius, turn, sx, sz) ==
    [radius |-> radius, turn |-> turn, sx |-> sx, sz |-> sz, y |-> 0]
\* The rotation (0, sign * angle + plus, 0).
Facing(sign, turn, plus) == [sign |-> sign, turn |-> turn, plus |-> plus]
\* What a formation does to instance i: the cmds.move and cmds.rotate it calls
\* and the number of random draws it used.
Placement(moved, pos, rotated, rot, used) ==
    [moved |-> moved, pos |-> pos, rotated |-> rotated, rot |-> rot, used |-> used]
Place(h, node, p) ==
    LET h1 == IF p.moved THEN Move(h, node, p.pos) ELSE h
    IN IF p.rotated THEN Rotate(h1, node, p.rot) ELSE h1

\* Keyframe values: a number in hundredths, or the value
\* sin(arg * 0.15) * 0.5 * scale of the wave of fancy_3d_text.py.
Num(v) == <<"num", v>>
Sin(arg) == <<"sin", arg>>
RECURSIVE SetKeys(_, _, _)
\* A run of cmds.setKeyframe calls on one node: ks is a sequence of
\* <<attribute, time, value in hundredths>>.
SetKeys(h, node, ks) ==
    IF ks = <<>> THEN h
    ELSE With(h, SetKeys(SetKeyframe(h, node, Head(ks)[1], Head(ks)[2], Num(Head(ks)[3])), node, Tail(ks)))
XYZ(attr, time, x, y, z) ==
    <<(<<attr \o "X", time, x>>), (<<attr \o "Y", time, y>>), (<<attr \o "Z", time, z>>)>>

(***************************************************************************)
(* starwars_fleet.py                                                       *)
(***************************************************************************)
\* if ship_type not in SHIP_TYPES: ship_type = "xwing"
ship_type_or_default(ship_type) ==
    IF ship_type \notin DOMAIN SHIP_TYPES THEN "xwing" ELSE ship_type

builders(ship_type, name, colors) ==
    CASE ship_type = "xwing" -> build_xwing(name, colors)
      [] ship_type = "tie" -> build_tie(name, colors)
      [] ship_type = "ywing" -> build_ywing(name, colors)
      [] ship_type = "awing" -> build_awing(name, colors)
      [] ship_type = "falcon" -> build_falcon(name, colors)
      [] ship_type = "shuttle" -> build_shuttle(name, colors)
      [] ship_type = "interceptor" -> build_interceptor_sw(name, colors)
      [] ship_type = "slave1" -> build_slave1(name, colors)

\* The group without the first of the parts.
GroupPartsButFirst(b, name) == GroupOf(b.h, Tail(b.env.parts), name)
\* group = cmds.group(parts, name=...) on the parts a builder returned.
GroupParts(b, name) == GroupOf(b.h, b.env.parts, name)
\* cmds.move(position, group); return group.
MoveGroup(g, position) == Ok(Move(g, LastNode(g), position), LastNode(g))

\* create_ship(ship_type, name, scale, position); q is the value random()
\* returns when the name is generated.
create_ship(h, ship_type, name, position, q) ==
    LET st == ship_type_or_default(ship_type) IN
    IF st \notin DOMAIN SHIP_TYPES THEN Raise(h, "KeyError")
    ELSE LET config == SHIP_TYPES[st]
             nm == IF name = None THEN st \o "_" \o Str(RandInt(q, 1, 999)) ELSE name
         IN MoveGroup(GroupParts(Run(h, NewEnv(0), builders(st, nm, config)), nm \o "_grp"),
                      position)

faction_ships ==
    [k \in {"rebel", "imperial", "mixed", "bounty_hunter"} |->
        CASE k = "rebel" -> <<"xwing", "xwing", "ywing", "awing", "falcon">>
          [] k = "imperial" -> <<"tie", "tie", "tie", "interceptor", "shuttle">>
          [] k = "mixed" -> <<"xwing", "tie", "falcon", "shuttle", "awing", "interceptor">>
          [] k = "bounty_hunter" -> <<"slave1", "ywing", "falcon">>]
\* faction_ships.get(faction, faction_ships["mixed"])
ships_list_of(faction) ==
    IF faction \in DOMAIN faction_ships THEN faction_ships[faction] ELSE faction_ships["mixed"]

\* The same with the patrol counted from 1.
fleet_position_sw_from_one(formation, i, count, rnd, k) ==
    CASE formation = "attack" ->
            LET row == i \div 2
                side == IF i % 2 = 0 THEN 1 ELSE -1
            IN Placement(TRUE, IF i = 0 THEN <<0, 0, 0>> ELSE <<-row * 500, 0, side * row * 400>>,
                         i > 0, <<0, 0, 0>>, 0)
      [] formation = "patrol" -> Placement(TRUE, <<(i + 1) * 600, 0, 0>>, FALSE, <<0, 0, 0>>, 0)
      [] formation = "escort" ->
            Placement(TRUE,
                      IF i = 0 THEN <<0, 0, 0>>
                      ELSE OnCircle(800, IF count > 1 THEN Frac(i - 1, count - 1) ELSE <<0, 1>>,
                                    100, 100),
                      FALSE, <<0, 0, 0>>, 0)
      [] OTHER ->
            Placement(TRUE, <<Uniform(Rnd(rnd, k), -1500, 1500), Uniform(Rnd(rnd, k + 1), -300, 300),
                              Uniform(Rnd(rnd, k + 2), -1500, 1500)>>,
                      FALSE, <<0, 0, 0>>, 3)
\* The position create_fleet computes for ship i of count.
fleet_position_sw(formation, i, count, rnd, k) ==
    CASE formation = "attack" ->
            LET row == i \div 2
                side == IF i % 2 = 0 THEN 1 ELSE -1
            IN Placement(TRUE, IF i = 0 THEN <<0, 0, 0>> ELSE <<-row * 500, 0, side * row * 400>>,
                         i > 0, <<0, 0, 0>>, 0)
      [] formation = "patrol" -> Placement(TRUE, <<i * 600, 0, 0>>, FALSE, <<0, 0, 0>>, 0)
      [] formation = "escort" ->
            Placement(TRUE,
                      IF i = 0 THEN <<0, 0, 0>>
                      ELSE OnCircle(800, IF count > 1 THEN Frac(i - 1, count - 1) ELSE <<0, 1>>,
                                    100, 100),
                      FALSE, <<0, 0, 0>>, 0)
      [] OTHER ->
            Placement(TRUE, <<Uniform(Rnd(rnd, k), -1500, 1500), Uniform(Rnd(rnd, k + 1), -300, 300),
                              Uniform(Rnd(rnd, k + 2), -1500, 1500)>>,
                      FALSE, <<0, 0, 0>>, 3)

\* The end of one pass of a group builder's loop: the instance c placed by p
\* and collected after `used` random draws, or the exception that left the
\* single-item builder.
Collect(st, c, p, used) ==
    IF c.raised # None THEN [st EXCEPT !.h = c.h, !.raised = c.raised]
    ELSE [h |-> Place(c.h, c.ret, p), made |-> Append(st.made, c.ret), k |-> st.k + used,
          raised |-> None]
\* The cmds.rotate of a placement whose position the single-item builder applied.
RotateOnly(p) == [p EXCEPT !.moved = FALSE]

\* The loop of create_fleet.  st = [h, made, k, raised]: the scene, the ships
\* built so far, the next random draw, the exception that ended the loop.
RECURSIVE fleet_loop_sw(_, _, _, _, _, _)
fleet_loop_sw(st, i, ships_list, count, formation, rnd) ==
    IF i >= count \/ st.raised # None THEN st
    ELSE LET p == fleet_position_sw(formation, i, count, rnd, st.k)
         IN fleet_loop_sw(
                Collect(st, create_ship(st.h, ships_list[(i % Len(ships_list)) + 1], None, p.pos,
                                        Rnd(rnd, st.k + p.used)),
                        RotateOnly(p), p.used + 1),
                i + 1, ships_list, count, formation, rnd)

LoopStart(h) == [h |-> h, made |-> <<>>, k |-> 1, raised |-> None]
\* The end of every group builder: cmds.group(instances, name=...).  made keeps
\* the handles the single-item builder returned.
GroupMade(st, name) ==
    IF st.raised # None THEN [h |-> st.h, ret |-> NoNode, raised |-> st.raised, made |-> st.made]
    ELSE LET g == GroupOf(st.h, st.made, name)
         IN [h |-> g, ret |-> LastNode(g), raised |-> None, made |-> st.made]

\* create_fleet(faction, count, formation) of starwars_fleet.py
create_fleet_sw(h, faction, count, formation, rnd) ==
    GroupMade(fleet_loop_sw(LoopStart(h), 0, ships_list_of(faction), count, formation, rnd),
              faction \o "_fleet_grp")

(***************************************************************************)
(* starship.py                                                             *)
(***************************************************************************)
\* SHIP_COLORS.get(color_scheme, SHIP_COLORS["classic"])
colors_of(color_scheme) ==
    IF color_scheme \in DOMAIN SHIP_COLORS THEN SHIP_COLORS[color_scheme]
    ELSE SHIP_COLORS["classic"]
\* The if / elif chain on ship_type; its else branch builds a fighter.
build_v1(ship_type, colors) ==
    CASE ship_type = "fighter" -> build_fighter(colors)
      [] ship_type = "cruiser" -> build_cruiser(colors)
      [] ship_type = "bomber" -> build_bomber(colors)
      [] ship_type = "scout" -> build_scout(colors)
      [] OTHER -> build_fighter(colors)

\* 'glow' in child.lower().  The descendants of a ship group are primitives
\* its builder created without a name, and no host default name (DefaultPrefix
\* and a number) has "glow" in it.
GlowInName(node) == node.named /\ node.name \in {"glow", "engine_glow"}

engine_keys_v1 ==
    XYZ("scale", 1, 100, 100, 100) \o XYZ("scale", 15, 120, 120, 110) \o
    XYZ("scale", 30, 100, 100, 100) \o XYZ("scale", 45, 115, 115, 105) \o
    XYZ("scale", 60, 100, 100, 100)
RECURSIVE KeyEach(_, _, _)
KeyEach(h, nodes, ks) ==
    IF nodes = <<>> THEN h
    ELSE With(h, KeyEach(SetKeys(h, Head(nodes), ks), Tail(nodes), ks))
\* add_engine_animation(group, engine_color) of starship.py
add_engine_animation_v1(h, group) ==
    KeyEach(h, SelectSeq(Children(h, group), LAMBDA c : GlowInName(h.scene[c])), engine_keys_v1)

\* create_starship(name, ship_type, color_scheme, scale, add_animation)
create_starship_v1(h, name, ship_type, color_scheme, add_animation) ==
    LET colors == colors_of(color_scheme)
        g == GroupEmpty(h, name \o "_grp")
        ship_group == LastNode(g)
    IN Let(Run(g, NewEnv(ship_group), build_v1(ship_type, colors)),
           LAMBDA b : Ok(IF add_animation THEN add_engine_animation_v1(b.h, ship_group) ELSE b.h,
                         ship_group))

ship_types_v1 == <<"fighter", "fighter", "scout", "bomber", "cruiser">>
\* The same with the diamond counted from 1.
fleet_position_v1_from_one(formation, i, count, rnd, k) ==
    CASE formation = "line" -> Placement(TRUE, <<i * 400, 0, 0>>, FALSE, <<0, 0, 0>>, 0)
      [] formation = "v" ->
            Placement(TRUE, <<(i - count \div 2) * 300, 0, -Abs(i - count \div 2) * 200>>,
                      FALSE, <<0, 0, 0>>, 0)
      [] formation = "diamond" ->
            Placement(TRUE, OnCircle(500, Frac(i + 1, count), 100, 100),
                      TRUE, Facing(-1, Frac(i, count), 90), 0)
      [] OTHER ->
            Placement(TRUE, <<Uniform(Rnd(rnd, k), -1000, 1000), Uniform(Rnd(rnd, k + 1), -200, 200),
                              Uniform(Rnd(rnd, k + 2), -1000, 1000)>>,
                      TRUE, <<0, Uniform(Rnd(rnd, k + 3), 0, 36000), 0>>, 4)
\* The placement create_fleet gives ship i of count.
fleet_position_v1(formation, i, count, rnd, k) ==
    CASE formation = "line" -> Placement(TRUE, <<i * 400, 0, 0>>, FALSE, <<0, 0, 0>>, 0)
      [] formation = "v" ->
            Placement(TRUE, <<(i - count \div 2) * 300, 0, -Abs(i - count \div 2) * 200>>,
                      FALSE, <<0, 0, 0>>, 0)
      [] formation = "diamond" ->
            Placement(TRUE, OnCircle(500, Frac(i, count), 100, 100),
                      TRUE, Facing(-1, Frac(i, count), 90), 0)
      [] OTHER ->
            Placement(TRUE, <<Uniform(Rnd(rnd, k), -1000, 1000), Uniform(Rnd(rnd, k + 1), -200, 200),
                              Uniform(Rnd(rnd, k + 2), -1000, 1000)>>,
                      TRUE, <<0, Uniform(Rnd(rnd, k + 3), 0, 36000), 0>>, 4)

RECURSIVE fleet_loop_v1(_, _, _, _, _)
fleet_loop_v1(st, i, count, formation, rnd) ==
    IF i >= count \/ st.raised # None THEN st
    ELSE LET p == fleet_position_v1(formation, i, count, rnd, st.k)
         IN fleet_loop_v1(
                Collect(st, create_starship_v1(st.h, "ship_" \o Str(i + 1),
                                               ship_types_v1[(i % Len(ship_types_v1)) + 1],
                                               SHIP_COLOR_KEYS[(i % Len(SHIP_COLOR_KEYS)) + 1],
                                               TRUE),
                        p, p.used),
                i + 1, count, formation, rnd)
\* create_fleet(count, formation) of starship.py
create_fleet_v1(h, count, formation, rnd) ==
    GroupMade(fleet_loop_v1(LoopStart(h), 0, count, formation, rnd), "fleet_grp")

(***************************************************************************)
(* starship_v2.py                                                          *)
(***************************************************************************)
\* The theme handed on as it is given.
theme_unvalidated(theme) == theme
\* if theme not in SHIP_THEMES: theme = "federation"
theme_or_default(theme) == IF theme \notin DOMAIN SHIP_THEMES THEN "federation" ELSE theme
\* if ship_class not in ["interceptor", "heavy_fighter", "racer"]: ...
ship_class_or_default(ship_class) ==
    IF ship_class \notin {"interceptor", "heavy_fighter", "racer"} THEN "interceptor"
    ELSE ship_class
\* The if / elif chain on ship_class; each builder reads SHIP_THEMES[theme].
build_v2(ship_class, group, theme) ==
    CASE ship_class = "interceptor" -> build_interceptor(group, SHIP_THEMES[theme])
      [] ship_class = "heavy_fighter" -> build_heavy_fighter(group, SHIP_THEMES[theme])
      [] ship_class = "racer" -> build_racer(group, SHIP_THEMES[theme])

\* add_engine_animation(group, intensity=1.0) of starship_v2.py: the pulse on
\* every descendant that has a shape.
engine_keys_v2 ==
    XYZ("scale", 1, 100, 100, 100) \o XYZ("scale", 20, 115, 115, 110) \o
    XYZ("scale", 40, 100, 100, 100) \o XYZ("scale", 60, 110, 110, 105) \o
    XYZ("scale", 80, 100, 100, 100)
add_engine_animation_v2(h, group) ==
    KeyEach(h, SelectSeq(Children(h, group), LAMBDA c : h.scene[c].kind # "transform"),
            engine_keys_v2)
\* add_flight_animation(group, style)
add_flight_animation(h, group, style) ==
    CASE style = "hover" ->
            SetKeys(h, group, <<(<<"translateY", 1, 0>>), (<<"translateY", 30, 20>>),
                (<<"translateY", 60, 0>>), (<<"translateY", 90, -10>>), (<<"translateY", 120, 0>>),
                (<<"rotateZ", 1, 0>>), (<<"rotateZ", 40, 200>>), (<<"rotateZ", 80, -200>>),
                (<<"rotateZ", 120, 0>>)>>)
      [] style = "flyby" ->
            SetKeys(h, group, <<(<<"translateX", 1, -2000>>), (<<"translateX", 120, 2000>>),
                (<<"rotateY", 1, 9000>>), (<<"rotateY", 120, 9000>>)>>)
      [] style = "banking" ->
            SetKeys(h, group, <<(<<"rotateY", 1, 0>>), (<<"rotateY", 60, 9000>>),
                (<<"rotateY", 120, 18000>>), (<<"rotateZ", 1, 0>>), (<<"rotateZ", 30, -3000>>),
                (<<"rotateZ", 60, 0>>), (<<"rotateZ", 90, -3000>>), (<<"rotateZ", 120, 0>>)>>)
      [] OTHER -> h

\* create_starship(name, ship_class, theme, scale, add_animation, animation_style)
create_starship_v2(h, name, ship_class, theme, add_animation, animation_style) ==
    LET th == theme_or_default(theme)
        sc == ship_class_or_default(ship_class)
        g == GroupEmpty(h, name \o "_grp")
        ship_group == LastNode(g)
    IN IF th \notin DOMAIN SHIP_THEMES THEN Raise(g, "KeyError")
       ELSE Let(Run(g, NewEnv(ship_group), build_v2(sc, name \o "_grp", th)),
                LAMBDA b : Ok(IF add_animation
                              THEN add_flight_animation(b.h, ship_group, animation_style)
                              ELSE b.h, ship_group))

\* The same with every ship put on one side of the leader.
squadron_position_one_side(formation, i, count) ==
    CASE formation = "v" ->
            LET row == i \div 2
                side == 1
            IN Placement(TRUE, IF i = 0 THEN <<0, 0, 0>> ELSE <<side * row * 300, 0, -row * 400>>,
                         FALSE, <<0, 0, 0>>, 0)
      [] formation = "line" -> Placement(TRUE, <<i * 400, 0, 0>>, FALSE, <<0, 0, 0>>, 0)
      [] formation = "diamond" ->
            Placement(TRUE, OnCircle(500, Frac(i, count), 100, 100),
                      TRUE, Facing(-1, Frac(i, count), 90), 0)
      [] formation = "echelon" -> Placement(TRUE, <<i * 300, 0, -i * 200>>, FALSE, <<0, 0, 0>>, 0)
      [] OTHER -> Placement(FALSE, <<0, 0, 0>>, FALSE, <<0, 0, 0>>, 0)
\* The placement create_squadron gives ship i of count; an unknown formation
\* moves nothing.
squadron_position(formation, i, count) ==
    CASE formation = "v" ->
            LET row == i \div 2
                side == IF i % 2 = 0 THEN 1 ELSE -1
            IN Placement(TRUE, IF i = 0 THEN <<0, 0, 0>> ELSE <<side * row * 300, 0, -row * 400>>,
                         FALSE, <<0, 0, 0>>, 0)
      [] formation = "line" -> Placement(TRUE, <<i * 400, 0, 0>>, FALSE, <<0, 0, 0>>, 0)
      [] formation = "diamond" ->
            Placement(TRUE, OnCircle(500, Frac(i, count), 100, 100),
                      TRUE, Facing(-1, Frac(i, count), 90), 0)
      [] formation = "echelon" -> Placement(TRUE, <<i * 300, 0, -i * 200>>, FALSE, <<0, 0, 0>>, 0)
      [] OTHER -> Placement(FALSE, <<0, 0, 0>>, FALSE, <<0, 0, 0>>, 0)

\* The count as it is given.
squadron_count_uncapped(count) == count
\* count = min(count, 12)
squadron_count(count) == IF count < 12 THEN count ELSE 12

RECURSIVE squadron_loop(_, _, _, _, _, _)
squadron_loop(st, i, count, ship_class, theme, formation) ==
    IF i >= count \/ st.raised # None THEN st
    ELSE squadron_loop(
            Collect(st, create_starship_v2(st.h, "squad_" \o Str(i + 1), ship_class, theme, TRUE,
                                           "hover"),
                    squadron_position(formation, i, count), 0),
            i + 1, count, ship_class, theme, formation)
\* create_squadron(count, ship_class, theme, formation)
create_squadron(h, count, ship_class, theme, formation) ==
    GroupMade(squadron_loop(LoopStart(h), 0, squadron_count(count), ship_class, theme, formation),
              "squadron_grp")

(***************************************************************************)
(* minecraft_characters.py                                                 *)
(***************************************************************************)
Sides == <<-1, 1>>
\* f"{side}" for side in [-1, 1]
SideStr(side) == IF side = -1 THEN "-1" ELSE "1"
\* A cube made, given its material and collected: polyCube, apply_material,
\* parts.append, with the material made before or after the cube as the code does.
Cube(var, name, mat) == <<Prim(var, "polyCube", name), Assign(var, mat), Keep(var)>>

create_head(name, colors) ==
    <<Prim("head", "polyCube", name \o "_head"), McMat("head_mat", name \o "_skin", colors.skin),
      Assign("head", "head_mat"), Keep("head"),
      Prim("hair", "polyCube", name \o "_hair"), McMat("hair_mat", name \o "_hair", colors.hair),
      Assign("hair", "hair_mat"), Keep("hair"),
      McMat("eye_mat", name \o "_eyes", colors.eyes)>> \o
    Cube("eye", name \o "_eye_-1", "eye_mat") \o Cube("eye", name \o "_eye_1", "eye_mat") \o
    <<McMat("pupil_mat", name \o "_pupil", <<90, 90, 90>>)>> \o
    Cube("pupil", name \o "_pupil_-1", "pupil_mat") \o Cube("pupil", name \o "_pupil_1", "pupil_mat")

create_body(name, colors) ==
    <<Prim("body", "polyCube", name \o "_body"), McMat("shirt_mat", name \o "_shirt", colors.shirt),
      Assign("body", "shirt_mat"), Keep("body")>>

\* One pass of the loop of create_arms.
arm_steps(name, side, arm_pose) ==
    Cube("upper_arm", name \o "_upper_arm_" \o SideStr(side), "shirt_mat") \o
    Cube("lower_arm", name \o "_lower_arm_" \o SideStr(side), "arm_mat") \o
    (IF arm_pose = "wave" /\ side = 1
     THEN <<Turn("upper_arm", <<0, 0, -45>>), Turn("lower_arm", <<0, 0, -45>>)>>
     ELSE IF arm_pose = "zombie"
     THEN <<Turn("upper_arm", <<0, 0, -side * 80>>), Turn("lower_arm", <<0, 0, -side * 80>>)>>
     ELSE <<>>)
create_arms(name, colors, arm_pose) ==
    <<McMat("arm_mat", name \o "_skin", colors.skin),
      McMat("shirt_mat", name \o "_shirt", colors.shirt)>> \o
    arm_steps(name, Sides[1], arm_pose) \o arm_steps(name, Sides[2], arm_pose)

\* One pass of the loop of create_legs.
leg_steps(name, side, leg_pose) ==
    <<Prim("upper_leg", "polyCube", name \o "_upper_leg_" \o SideStr(side)),
      Assign("upper_leg", "pants_mat"),
      Prim("lower_leg", "polyCube", name \o "_lower_leg_" \o SideStr(side)),
      Assign("lower_leg", "pants_mat"),
      Prim("shoe", "polyCube", name \o "_shoe_" \o SideStr(side)), Assign("shoe", "shoes_mat")>> \o
    (IF leg_pose = "walking"
     THEN <<Turn("upper_leg", <<25 * side, 0, 0>>), Turn("lower_leg", <<25 * side, 0, 0>>),
            Turn("shoe", <<25 * side, 0, 0>>)>>
     ELSE <<>>) \o
    <<Keep("upper_leg"), Keep("lower_leg"), Keep("shoe")>>
create_legs(name, colors, leg_pose) ==
    <<McMat("pants_mat", name \o "_pants", colors.pants),
      McMat("shoes_mat", name \o "_shoes", colors.shoes)>> \o
    leg_steps(name, Sides[1], leg_pose) \o leg_steps(name, Sides[2], leg_pose)

add_creeper_face(name) ==
    <<McMat("black_mat", name \o "_black", <<5, 5, 5>>)>> \o
    Cube("eye", name \o "_creeper_eye_-1", "black_mat") \o
    Cube("eye", name \o "_creeper_eye_1", "black_mat") \o
    Cube("mouth_top", name \o "_mouth_top", "black_mat") \o
    Cube("mouth_side", name \o "_mouth_side_-1", "black_mat") \o
    Cube("mouth_side", name \o "_mouth_side_1", "black_mat")
add_villager_nose(name) ==
    <<McMat("skin_mat", name \o "_nose", <<65, 48, 35>>)>> \o
    Cube("nose", name \o "_big_nose", "skin_mat")
add_pig_snout(name) ==
    <<McMat("snout_mat", name \o "_snout", <<85, 65, 60>>),
      Prim("snout", "polyCube", name \o "_snout"), Assign("snout", "snout_mat"),
      McMat("nostril_mat", name \o "_nostril", <<30, 20, 20>>),
      Prim("nostril_l", "polyCube", name \o "_nostril_-1"), Assign("nostril_l", "nostril_mat"),
      Prim("nostril_r", "polyCube", name \o "_nostril_1"), Assign("nostril_r", "nostril_mat"),
      Keep("snout"), Keep("nostril_l"), Keep("nostril_r")>>
add_witch_hat(name) ==
    <<McMat("hat_mat", name \o "_hat", <<15, 5, 20>>),
      McMat("buckle_mat", name \o "_buckle", <<40, 60, 20>>),
      Prim("brim", "polyCylinder", name \o "_brim"), Assign("brim", "hat_mat"),
      Prim("cone", "polyCone", name \o "_hat_cone"), Turn("cone", <<0, 0, 15>>),
      Assign("cone", "hat_mat"),
      Prim("buckle", "polyCube", name \o "_buckle"), Assign("buckle", "buckle_mat"),
      Keep("brim"), Keep("cone"), Keep("buckle")>>
add_held_item(name, item_type) ==
    CASE item_type = "sword" ->
            <<McMat("blade_mat", name \o "_blade", <<30, 85, 85>>),
              McMat("handle_mat", name \o "_handle", <<40, 25, 15>>),
              Prim("blade", "polyCube", name \o "_blade"), Turn("blade", <<0, 0, -45>>),
              Assign("blade", "blade_mat"), Keep("blade"),
              Prim("handle", "polyCube", name \o "_sword_handle"), Turn("handle", <<0, 0, -45>>),
              Assign("handle", "handle_mat"), Keep("handle")>>
      [] item_type = "pickaxe" ->
            <<McMat("head_mat", name \o "_pick_head", <<70, 70, 68>>),
              McMat("stick_mat", name \o "_stick", <<55, 35, 20>>),
              Prim("stick", "polyCube", name \o "_pick_stick"), Turn("stick", <<0, 0, -45>>),
              Assign("stick", "stick_mat"), Keep("stick"),
              Prim("head", "polyCube", name \o "_pick_head"), Turn("head", <<0, 0, -45>>),
              Assign("head", "head_mat"), Keep("head")>>
      [] item_type = "bow" ->
            <<McMat("bow_mat", name \o "_bow", <<50, 35, 20>>),
              McMat("string_mat", name \o "_string", <<90, 90, 90>>),
              Prim("bow", "polyCylinder", name \o "_bow"), Turn("bow", <<0, 45, 0>>),
              Assign("bow", "bow_mat"), Keep("bow"),
              Prim("string", "polyCube", name \o "_string"), Assign("string", "string_mat"),
              Keep("string")>>
      [] OTHER -> <<>>

\* if char_type not in CHARACTERS: char_type = "steve"
char_type_or_default(char_type) ==
    IF char_type \notin DOMAIN CHARACTERS THEN "steve" ELSE char_type
\* The arms waving for any pose that is not the zombie's.
arm_pose_of_waving(pose) == IF pose = "zombie" THEN pose ELSE "wave"
\* arm_pose and leg_pose of create_character
arm_pose_of(pose) == IF pose \in {"wave", "zombie"} THEN pose ELSE "down"
leg_pose_of(pose) == IF pose = "walking" THEN "walking" ELSE "standing"
special_steps(name, special) ==
    CASE special = "creeper_face" -> add_creeper_face(name)
      [] special = "big_nose" -> add_villager_nose(name)
      [] special = "pig_snout" -> add_pig_snout(name)
      [] special = "witch_hat" -> add_witch_hat(name)
      [] OTHER -> <<>>
\* if armor and armor in ARMOR_TYPES: the chestplate
armor_steps(name, armor) ==
    IF armor # None /\ armor # "" /\ armor \in DOMAIN ARMOR_TYPES
    THEN <<McMat("armor_mat", name \o "_armor", ARMOR_TYPES[armor]),
           Prim("chest", "polyCube", name \o "_chestplate"), Assign("chest", "armor_mat"),
           Keep("chest")>>
    ELSE <<>>

\* The host calls of create_character between the table lookup and the grouping:
\* head, body, arms, legs, special features, held item, armor.
character_steps(nm, config, pose, held_item, armor) ==
    create_head(nm, config) \o create_body(nm, config) \o
    create_arms(nm, config, arm_pose_of(pose)) \o
    create_legs(nm, config, leg_pose_of(pose)) \o
    special_steps(nm, config.special) \o
    (IF held_item # None /\ held_item # "" THEN add_held_item(nm, held_item) ELSE <<>>) \o
    armor_steps(nm, armor)
\* create_character(char_type, name, scale, position, pose, held_item, armor);
\* q is the value random() returns when the name is generated.
create_character(h, char_type, name, position, pose, held_item, armor, q) ==
    LET ct == char_type_or_default(char_type) IN
    IF ct \notin DOMAIN CHARACTERS THEN Raise(h, "KeyError")
    ELSE LET config == CHARACTERS[ct]
             nm == IF name = None THEN ct \o "_" \o Str(RandInt(q, 100, 999)) ELSE name
         IN MoveGroup(
                GroupParts(Run(h, NewEnv(0), character_steps(nm, config, pose, held_item, armor)),
                           nm \o "_grp"),
                position)

poses == <<"standing", "walking", "wave">>
items == <<None, None, "sword", "pickaxe", "bow">>
\* One pass of the loop of create_village: four or five random draws, then the
\* one create_character makes for the name.
RECURSIVE village_loop(_, _, _, _, _)
village_loop(st, i, character_count, radius, rnd) ==
    IF i >= character_count \/ st.raised # None THEN st
    ELSE LET char_type == CHARACTER_KEYS[(i % Len(CHARACTER_KEYS)) + 1]
             turn == Frac(i, character_count)
             pos == OnCircle(radius, turn, Uniform(Rnd(rnd, st.k), 60, 100),
                             Uniform(Rnd(rnd, st.k + 1), 60, 100))
             pose == Choice(Rnd(rnd, st.k + 2), poses)
             armed == char_type \in {"steve", "alex", "skeleton"}
             item == IF armed THEN Choice(Rnd(rnd, st.k + 3), items) ELSE None
             used == IF armed THEN 4 ELSE 3
         IN village_loop(
                Collect(st, create_character(st.h, char_type, None, pos, pose, item, None,
                                             Rnd(rnd, st.k + used)),
                        Placement(FALSE, pos, TRUE, Facing(-1, turn, 90), used), used + 1),
                i + 1, character_count, radius, rnd)
\* create_village(character_count, radius)
create_village(h, character_count, radius, rnd) ==
    GroupMade(village_loop(LoopStart(h), 0, character_count, radius, rnd),
              "minecraft_village_grp")

\* The same with the line shaken by a random draw.
horde_position_shaken(formation, i, count, rnd, k) ==
    CASE formation = "line" ->
            Placement(TRUE, <<i * 200 + Rnd(rnd, k + i), 0, 0>>, FALSE, <<0, 0, 0>>, 0)
      [] formation = "ambush" ->
            Placement(TRUE, OnCircle(800, Frac(2 * i - count, 4 * count), 100, 100),
                      TRUE, Facing(-1, Frac(2 * i - count, 4 * count), 0), 0)
      [] OTHER ->
            Placement(TRUE, <<Uniform(Rnd(rnd, k), -800, 800), 0, Uniform(Rnd(rnd, k + 1), -800, 800)>>,
                      FALSE, <<0, 0, 0>>, 2)
\* The placement create_mob_horde gives mob i of count: a line, a half circle
\* from -90 to 90 degrees, or a random swarm.
horde_position(formation, i, count, rnd, k) ==
    CASE formation = "line" -> Placement(TRUE, <<i * 200, 0, 0>>, FALSE, <<0, 0, 0>>, 0)
      [] formation = "ambush" ->
            Placement(TRUE, OnCircle(800, Frac(2 * i - count, 4 * count), 100, 100),
                      TRUE, Facing(-1, Frac(2 * i - count, 4 * count), 0), 0)
      [] OTHER ->
            Placement(TRUE, <<Uniform(Rnd(rnd, k), -800, 800), 0, Uniform(Rnd(rnd, k + 1), -800, 800)>>,
                      FALSE, <<0, 0, 0>>, 2)
RECURSIVE horde_loop(_, _, _, _, _, _)
horde_loop(st, i, mob_type, count, formation, rnd) ==
    IF i >= count \/ st.raised # None THEN st
    ELSE LET p == horde_position(formation, i, count, rnd, st.k)
         IN horde_loop(
                Collect(st, create_character(st.h, mob_type, None, p.pos,
                                             IF mob_type = "zombie" THEN "zombie" ELSE "walking",
                                             IF mob_type = "skeleton" THEN "bow" ELSE None, None,
                                             Rnd(rnd, st.k + p.used)),
                        RotateOnly(p), p.used + 1),
                i + 1, mob_type, count, formation, rnd)
\* create_mob_horde(mob_type, count, formation)
create_mob_horde(h, mob_type, count, formation, rnd) ==
    GroupMade(horde_loop(LoopStart(h), 0, mob_type, count, formation, rnd),
              mob_type \o "_horde_grp")

(***************************************************************************)
(* A host call that raises in the middle of a build.  No builder has a try *)
(* statement around its host calls, deletes a node or repeats a call: the  *)
(* exception leaves the builder at the call that raised, with the scene as *)
(* the calls before it made it.  fail is the number of the step whose call *)
(* raises, one past the last step for the call that follows the steps      *)
(* (cmds.group, cmds.move, the animation); late says the step's first call *)
(* went through and a later call of the same step raised.                  *)
(***************************************************************************)
HostError == "RuntimeError"
\* What a step leaves behind when one of its calls raises.
Cut(h, env, s, late) ==
    IF ~late THEN h
    ELSE CASE s.op = "part" -> NewNode(h, s.kind, s.name)
           [] s.op = "part2" -> NewNode(h, s.kind, None)
           [] s.op = "mat_sw" -> create_material_sw(h, s.name, s.color, s.emission).h
           [] s.op = "mat_mc" -> create_material_mc(h, s.name, s.color, s.emission).h
           [] s.op = "mat_v2" -> create_material_v2(h, s.name, s.color, s.emission).h
           [] s.op = "apply" ->
                NewMaterial(h, "blinn", s.name, s.name \o "_SG", s.color, IF s.glow THEN 80 ELSE 0)
           [] OTHER -> h
\* A builder that deleted what it had made before the exception left it.
RolledBack(h, env, steps, fail, late) == Raise(h, HostError)
\* The steps of a builder up to the call that raises.
Failing(h, env, steps, fail, late) ==
    IF fail > Len(steps) THEN Raise(Run(h, env, steps).h, HostError)
    ELSE Let(RunFrom([h |-> h, env |-> env], steps, 1, fail - 1),
             LAMBDA st : Raise(Cut(st.h, st.env, steps[fail], late), HostError))

\* create_starship of starship.py: the empty group, then the builder's calls.
create_starship_v1_raising(h, name, ship_type, color_scheme, fail, late) ==
    LET g == GroupEmpty(h, name \o "_grp")
    IN Failing(g, NewEnv(LastNode(g)), build_v1(ship_type, colors_of(color_scheme)), fail, late)
\* create_starship of starship_v2.py
create_starship_v2_raising(h, name, ship_class, theme, fail, late) ==
    LET g == GroupEmpty(h, name \o "_grp")
    IN Failing(g, NewEnv(LastNode(g)),
               build_v2(ship_class_or_default(ship_class), name \o "_grp", theme_or_default(theme)),
               fail, late)
\* create_ship of starwars_fleet.py
create_ship_raising(h, ship_type, name, fail, late) ==
    LET st == ship_type_or_default(ship_type)
    IN Failing(h, NewEnv(0), builders(st, name, SHIP_TYPES[st]), fail, late)
\* create_character of minecraft_characters.py
create_character_raising(h, char_type, name, pose, held_item, armor, fail, late) ==
    Failing(h, NewEnv(0),
            character_steps(name, CHARACTERS[char_type_or_default(char_type)], pose, held_item,
                            armor),
            fail, late)

(***************************************************************************)
(* fancy_3d_text.py.  What cmds.textCurves and the extrusion make of a     *)
(* character is the host's and the font's business: bad is the set of      *)
(* characters the host cannot turn into a mesh (textCurves raises, no      *)
(* curve comes back, or every extrusion raises); the code skips such a     *)
(* letter and deletes what is left of its curves.  get_available_font only *)
(* picks the font name handed to textCurves and leaves the scene as it     *)
(* was.                                                                    *)
(***************************************************************************)
\* COLOR_PRESETS.get(color_preset, COLOR_PRESETS["rainbow"])
colors_v1(color_preset) ==
    IF color_preset \in DOMAIN COLOR_PRESETS_V1 THEN COLOR_PRESETS_V1[color_preset]
    ELSE COLOR_PRESETS_V1["rainbow"]
\* colors[color_index], whatever per_letter_colors.
letter_color_v1_cycling(colors, i, per_letter_colors) == colors[(i % Len(colors)) + 1]
\* colors[color_index] if per_letter_colors else colors[0], with
\* color_index = i % len(colors); sequences are 1-based here.
letter_color_v1(colors, i, per_letter_colors) ==
    IF per_letter_colors THEN colors[(i % Len(colors)) + 1] ELSE colors[1]

\* create_material (aiStandardSurface) and, when it raises because the
\* renderer is not loaded, create_blinn_material.
letter_material(h, name, color, glow, arnold) ==
    NewMaterial(h, IF arnold THEN "aiStandardSurface" ELSE "blinn",
                name \o "_shader", name \o "_SG", color, glow)

\* One pass of the loop over enumerate(text).  st = [h, letter_meshes,
\* letter_groups].
letter_v1(st, i, char, colors, per_letter_colors, add_glow, bad, arnold) ==
    IF char = " " \/ char \in bad THEN st
    ELSE LET base == "letter_" \o char \o "_" \o Str(i)
             h1 == NewNode(st.h, "mesh", base \o "_mesh")
             letter_mesh == LastNode(h1)
             h2 == letter_material(h1, base \o "_mat",
                                   letter_color_v1(colors, i, per_letter_colors),
                                   IF add_glow THEN 30 ELSE 0, arnold)
             h3 == GroupOf(AssignSG(h2, letter_mesh, base \o "_mat_SG"), <<letter_mesh>>,
                           base \o "_grp")
         IN [h |-> h3, letter_meshes |-> Append(st.letter_meshes, letter_mesh),
             letter_groups |-> Append(st.letter_groups, LastNode(h3))]
\* The loop left at the first letter that cannot be built.
RECURSIVE letters_v1_stopping(_, _, _, _, _, _, _, _)
letters_v1_stopping(st, i, text, colors, per_letter_colors, add_glow, bad, arnold) ==
    IF i >= Len(text) \/ text[i + 1] \in bad THEN st
    ELSE With(st, letters_v1_stopping(
            letter_v1(st, i, text[i + 1], colors, per_letter_colors, add_glow, bad, arnold),
            i + 1, text, colors, per_letter_colors, add_glow, bad, arnold))
\* The loop over enumerate(text).
RECURSIVE letters_v1(_, _, _, _, _, _, _, _)
letters_v1(st, i, text, colors, per_letter_colors, add_glow, bad, arnold) ==
    IF i >= Len(text) THEN st
    ELSE With(st, letters_v1(
            letter_v1(st, i, text[i + 1], colors, per_letter_colors, add_glow, bad, arnold),
            i + 1, text, colors, per_letter_colors, add_glow, bad, arnold))

\* The keyframes of letter group number i (offset = i * 5).
RECURSIVE wave_v1(_, _, _, _)
wave_v1(h, grp, offset, frame) ==
    IF frame >= 121 THEN h
    ELSE With(h, wave_v1(SetKeyframe(h, grp, "translateY", frame, Sin(frame + offset)), grp,
                         offset, frame + 10))
animate_v1(h, grp, i, animation_type) ==
    LET offset == i * 5 IN
    CASE animation_type = "wave" -> wave_v1(h, grp, offset, 1)
      [] animation_type = "bounce" ->
            SetKeys(h, grp, <<(<<"translateY", 1 + offset, 0>>), (<<"translateY", 15 + offset, 150>>),
                (<<"translateY", 30 + offset, 0>>), (<<"translateY", 40 + offset, 50>>),
                (<<"translateY", 50 + offset, 0>>), (<<"translateY", 70 + offset, 0>>),
                (<<"translateY", 85 + offset, 150>>), (<<"translateY", 100 + offset, 0>>)>>)
      [] animation_type = "spin" ->
            SetKeys(h, grp, <<(<<"rotateY", 1, 0>>), (<<"rotateY", 60 + offset, 36000>>),
                (<<"rotateY", 120, 72000>>)>>)
      [] animation_type = "pop" ->
            SetKeys(h, grp, XYZ("scale", 1 + offset, 0, 0, 0) \o
                XYZ("scale", 10 + offset, 130, 130, 130) \o XYZ("scale", 20 + offset, 100, 100, 100))
      [] OTHER -> h
RECURSIVE animate_all_v1(_, _, _, _)
animate_all_v1(h, letter_groups, i, animation_type) ==
    IF i >= Len(letter_groups) THEN h
    ELSE With(h, animate_all_v1(animate_v1(h, letter_groups[i + 1], i, animation_type),
                                letter_groups, i + 1, animation_type))

\* create_3d_text(text, font, ..., color_preset, per_letter_colors, add_glow,
\* glow_intensity, add_animation, animation_type, ...) of fancy_3d_text.py
create_3d_text_v1(h, text, color_preset, per_letter_colors, add_glow, add_animation, animation_type, bad, arnold) ==
    Let(letters_v1([h |-> h, letter_meshes |-> <<>>, letter_groups |-> <<>>], 0, text,
                   colors_v1(color_preset), per_letter_colors, add_glow, bad, arnold),
        LAMBDA st :
            IF st.letter_groups = <<>>
            THEN Ok(st.h, [group |-> NoNode, meshes |-> <<>>])
            ELSE Let(GroupOf(st.h, st.letter_groups,
                             "text_" \o Join(ReplaceSpaces(text)) \o "_grp"),
                     LAMBDA g : Ok(IF add_animation
                                   THEN animate_all_v1(g, st.letter_groups, 0, animation_type)
                                   ELSE g,
                                   [group |-> LastNode(g), meshes |-> st.letter_meshes])))

(***************************************************************************)
(* fancy_3d_text_v2.py.  tool is what the host's Type tool does:           *)
(*   "raises"       mel.eval('CreatePolygonType') raises                   *)
(*   "no_node"      no polyType node is listed afterwards                  *)
(*   "connected"    a type mesh is made and found through the connections  *)
(*                  of the type node                                       *)
(*   "unconnected"  a type mesh is made, no connection is listed, and the  *)
(*                  code takes the first transform with "type" in its name *)
(*                  that has a mesh shape                                  *)
(***************************************************************************)
\* COLOR_PRESETS.get(color_preset, COLOR_PRESETS["rainbow"])
colors_v2(color_preset) ==
    IF color_preset \in DOMAIN COLOR_PRESETS_V2 THEN COLOR_PRESETS_V2[color_preset]
    ELSE COLOR_PRESETS_V2["rainbow"]
\* The colour after the one of mesh i.
mesh_color_v2_next(colors, i) == colors[((i + 1) % Len(colors)) + 1]
\* colors[i % len(colors)]; sequences are 1-based here.
mesh_color_v2(colors, i) == colors[(i % Len(colors)) + 1]

letter_patterns ==
    [c \in {"A", "B", "C", "D", "E", "F", "G", "H", "I", "J", "K", "L", "M", "N", "O", "P", "Q", "R", "S", "T", "U", "V", "W", "X", "Y", "Z", " ", "!", "."} |->
        CASE c = "A" -> <<<<0, 0>>, <<0, 10>>, <<0, 20>>, <<10, 20>>, <<20, 20>>, <<20, 10>>, <<20, 0>>, <<10, 10>>>>
          [] c = "B" -> <<<<0, 0>>, <<0, 10>>, <<0, 20>>, <<10, 20>>, <<20, 15>>, <<10, 10>>, <<20, 5>>, <<10, 0>>>>
          [] c = "C" -> <<<<0, 0>>, <<0, 10>>, <<0, 20>>, <<10, 20>>, <<20, 20>>, <<10, 0>>, <<20, 0>>>>
          [] c = "D" -> <<<<0, 0>>, <<0, 10>>, <<0, 20>>, <<10, 20>>, <<20, 10>>, <<10, 0>>>>
          [] c = "E" -> <<<<0, 0>>, <<0, 10>>, <<0, 20>>, <<10, 20>>, <<20, 20>>, <<10, 10>>, <<10, 0>>, <<20, 0>>>>
          [] c = "F" -> <<<<0, 0>>, <<0, 10>>, <<0, 20>>, <<10, 20>>, <<20, 20>>, <<10, 10>>>>
          [] c = "G" -> <<<<0, 0>>, <<0, 10>>, <<0, 20>>, <<10, 20>>, <<20, 20>>, <<20, 0>>, <<10, 0>>, <<20, 10>>, <<15, 10>>>>
          [] c = "H" -> <<<<0, 0>>, <<0, 10>>, <<0, 20>>, <<10, 10>>, <<20, 0>>, <<20, 10>>, <<20, 20>>>>
          [] c = "I" -> <<<<0, 0>>, <<10, 0>>, <<20, 0>>, <<10, 10>>, <<0, 20>>, <<10, 20>>, <<20, 20>>>>
          [] c = "J" -> <<<<0, 0>>, <<10, 0>>, <<20, 0>>, <<20, 10>>, <<20, 20>>, <<10, 20>>, <<0, 20>>>>
          [] c = "K" -> <<<<0, 0>>, <<0, 10>>, <<0, 20>>, <<10, 10>>, <<20, 0>>, <<20, 20>>>>
          [] c = "L" -> <<<<0, 0>>, <<0, 10>>, <<0, 20>>, <<10, 0>>, <<20, 0>>>>
          [] c = "M" -> <<<<0, 0>>, <<0, 10>>, <<0, 20>>, <<10, 15>>, <<20, 20>>, <<20, 10>>, <<20, 0>>>>
          [] c = "N" -> <<<<0, 0>>, <<0, 10>>, <<0, 20>>, <<10, 15>>, <<20, 20>>, <<20, 10>>, <<20, 0>>>>
          [] c = "O" -> <<<<0, 0>>, <<0, 10>>, <<0, 20>>, <<10, 20>>, <<20, 20>>, <<20, 10>>, <<20, 0>>, <<10, 0>>>>
          [] c = "P" -> <<<<0, 0>>, <<0, 10>>, <<0, 20>>, <<10, 20>>, <<20, 20>>, <<20, 15>>, <<10, 10>>>>
          [] c = "Q" -> <<<<0, 0>>, <<0, 10>>, <<0, 20>>, <<10, 20>>, <<20, 20>>, <<20, 10>>, <<20, 0>>, <<10, 0>>, <<15, -5>>>>
          [] c = "R" -> <<<<0, 0>>, <<0, 10>>, <<0, 20>>, <<10, 20>>, <<20, 20>>, <<20, 15>>, <<10, 10>>, <<20, 0>>>>
          [] c = "S" -> <<<<0, 0>>, <<10, 0>>, <<20, 0>>, <<20, 10>>, <<10, 10>>, <<0, 10>>, <<0, 20>>, <<10, 20>>, <<20, 20>>>>
          [] c = "T" -> <<<<0, 20>>, <<10, 20>>, <<20, 20>>, <<10, 10>>, <<10, 0>>>>
          [] c = "U" -> <<<<0, 20>>, <<0, 10>>, <<0, 0>>, <<10, 0>>, <<20, 0>>, <<20, 10>>, <<20, 20>>>>
          [] c = "V" -> <<<<0, 20>>, <<0, 10>>, <<10, 0>>, <<20, 10>>, <<20, 20>>>>
          [] c = "W" -> <<<<0, 20>>, <<0, 10>>, <<0, 0>>, <<10, 5>>, <<20, 0>>, <<20, 10>>, <<20, 20>>>>
          [] c = "X" -> <<<<0, 0>>, <<0, 20>>, <<10, 10>>, <<20, 0>>, <<20, 20>>>>
          [] c = "Y" -> <<<<0, 20>>, <<10, 10>>, <<20, 20>>, <<10, 0>>>>
          [] c = "Z" -> <<<<0, 20>>, <<10, 20>>, <<20, 20>>, <<20, 10>>, <<10, 10>>, <<0, 10>>, <<0, 0>>, <<10, 0>>, <<20, 0>>>>
          [] c = " " -> <<>>
          [] c = "!" -> <<<<10, 20>>, <<10, 10>>, <<10, 0>>>>
          [] c = "." -> <<<<10, 0>>>>]
\* The pattern of a character, none for a character that has none.
pattern_of_known(char) ==
    IF char \in DOMAIN letter_patterns THEN letter_patterns[char] ELSE <<>>
\* letter_patterns.get(char, letter_patterns.get('?', [(1,1)]))
pattern_of(char) ==
    IF char \in DOMAIN letter_patterns THEN letter_patterns[char] ELSE <<(<<10, 10>>)>>

\* The cubes of one letter, each parented to the letter group.
RECURSIVE cubes(_, _, _)
cubes(h, letter_group, n) ==
    IF n = 0 THEN h
    ELSE LET h1 == NewNode(h, "polyCube", None)
         IN With(h1, cubes(ParentTo(h1, LastNode(h1), letter_group), letter_group, n - 1))
\* One pass of the loop of create_primitive_text.  st = [h, meshes].
primitive_letter(st, char) ==
    IF char = " " \/ pattern_of(char) = <<>> THEN st
    ELSE LET g == GroupEmpty(st.h, "letter_" \o char \o "_grp")
             letter_group == LastNode(g)
             h1 == cubes(g, letter_group, Len(pattern_of(char)))
             h2 == IF Len(Children(h1, letter_group)) > 1
                   THEN LET u == NewNode(h1, "polyUnite", None)
                        IN ParentTo(u, LastNode(u), letter_group)
                   ELSE h1
         IN [h |-> h2, meshes |-> Append(st.meshes, letter_group)]
RECURSIVE primitive_letters(_, _)
primitive_letters(st, text) ==
    IF text = <<>> THEN st
    ELSE With(st, primitive_letters(primitive_letter(st, Head(text)), Tail(text)))
\* create_primitive_text(text, scale)
create_primitive_text(h, text) == primitive_letters([h |-> h, meshes |-> <<>>], UpperText(text))

\* The first part of create_3d_text: the Type tool.  A type mesh is a
\* transform the host names typeMesh<n>.
TypeMeshes(h) == SelectSeq([i \in 1..Len(h.scene) |-> i], LAMBDA i : h.scene[i].kind = "typeMesh")
type_tool(h, tool) ==
    CASE tool = "connected" ->
            LET h1 == NewNode(h, "typeMesh", None) IN [h |-> h1, meshes |-> <<LastNode(h1)>>]
      [] tool = "unconnected" ->
            LET h1 == NewNode(h, "typeMesh", None) IN [h |-> h1, meshes |-> <<TypeMeshes(h1)[1]>>]
      [] OTHER -> [h |-> h, meshes |-> <<>>]

\* apply_fancy_material(mesh, color, add_glow, glow_intensity, mat_name)
apply_fancy_material(h, mesh, color, add_glow, mat_name) ==
    AssignSG(NewMaterial(h, "blinn", mat_name, mat_name \o "_SG", color,
                         IF add_glow THEN 20 ELSE 0),
             mesh, mat_name \o "_SG")
RECURSIVE apply_materials(_, _, _, _, _)
apply_materials(h, meshes, i, colors, add_glow) ==
    IF i >= Len(meshes) THEN h
    ELSE With(h, apply_materials(
            apply_fancy_material(h, meshes[i + 1], mesh_color_v2(colors, i), add_glow,
                                 "text_mat_" \o Str(i)),
            meshes, i + 1, colors, add_glow))

\* The same with the keyframes of the wave for any other type.
text_keys_v2_wave_else(i, animation_type) ==
    LET offset == i * 5 IN
    CASE animation_type = "wave" ->
            <<(<<"translateY", 1 + offset, 0>>), (<<"translateY", 15 + offset, 50>>),
              (<<"translateY", 30 + offset, 0>>)>>
      [] animation_type = "bounce" ->
            <<(<<"translateY", 1 + offset, 0>>), (<<"translateY", 10 + offset, 100>>),
              (<<"translateY", 20 + offset, 0>>), (<<"translateY", 25 + offset, 50>>),
              (<<"translateY", 30 + offset, 0>>)>>
      [] animation_type = "spin" -> <<(<<"rotateY", 1, 0>>), (<<"rotateY", 120, 36000>>)>>
      [] animation_type = "pop" ->
            XYZ("scale", 1 + offset, 0, 0, 0) \o XYZ("scale", 10 + offset, 120, 120, 120) \o
            XYZ("scale", 15 + offset, 100, 100, 100)
      [] OTHER ->
            <<(<<"translateY", 1 + offset, 0>>), (<<"translateY", 15 + offset, 50>>),
              (<<"translateY", 30 + offset, 0>>)>>
\* The keyframes add_text_animation sets on mesh number i (offset = i * 5).
text_keys_v2(i, animation_type) ==
    LET offset == i * 5 IN
    CASE animation_type = "wave" ->
            <<(<<"translateY", 1 + offset, 0>>), (<<"translateY", 15 + offset, 50>>),
              (<<"translateY", 30 + offset, 0>>)>>
      [] animation_type = "bounce" ->
            <<(<<"translateY", 1 + offset, 0>>), (<<"translateY", 10 + offset, 100>>),
              (<<"translateY", 20 + offset, 0>>), (<<"translateY", 25 + offset, 50>>),
              (<<"translateY", 30 + offset, 0>>)>>
      [] animation_type = "spin" -> <<(<<"rotateY", 1, 0>>), (<<"rotateY", 120, 36000>>)>>
      [] animation_type = "pop" ->
            XYZ("scale", 1 + offset, 0, 0, 0) \o XYZ("scale", 10 + offset, 120, 120, 120) \o
            XYZ("scale", 15 + offset, 100, 100, 100)
      [] OTHER -> <<>>
RECURSIVE text_animation_from(_, _, _, _)
text_animation_from(h, meshes, i, animation_type) ==
    IF i >= Len(meshes) THEN h
    ELSE With(h, text_animation_from(SetKeys(h, meshes[i + 1], text_keys_v2(i, animation_type)),
                                     meshes, i + 1, animation_type))
\* add_text_animation(meshes, animation_type)
add_text_animation(h, meshes, animation_type) == text_animation_from(h, meshes, 0, animation_type)

\* create_3d_text(text, color_preset, ..., add_glow, glow_intensity,
\* add_animation, animation_type, scale) of fancy_3d_text_v2.py
create_3d_text_v2(h, text, color_preset, add_glow, add_animation, animation_type, tool) ==
    Let(Let(type_tool(h, tool),
            LAMBDA t : IF t.meshes = <<>> THEN create_primitive_text(t.h, text) ELSE t),
        LAMBDA m :
            IF m.meshes = <<>>
            THEN Ok(m.h, [group |-> NoNode, meshes |-> <<>>])
            ELSE LET g == GroupEmpty(m.h, "fancy_text_" \o Join(ReplaceSpaces(text)) \o "_grp")
                     main_group == LastNode(g)
                 IN Let(apply_materials(ParentAll(g, m.meshes, main_group), m.meshes, 0,
                                        colors_v2(color_preset), add_glow),
                        LAMBDA h1 :
                            Ok(Move(IF add_animation
                                    THEN add_text_animation(h1, m.meshes, animation_type)
                                    ELSE h1, main_group, <<0, 0, 0>>),
                               [group |-> main_group, meshes |-> m.meshes])))

(***************************************************************************)
(* The launchers.  A launcher is a snippet run at the top level of the     *)
(* host's Python session; what it leaves is in the session: sys.path,      *)
(* sys.modules and the names of the main namespace.  A script file has a   *)
(* version, which an edit of the file raises; a module in sys.modules and  *)
(* a function bound to a name carry the version of the file they were      *)
(* executed from, 0 standing for a module that is not loaded.  The fault   *)
(* of a run says what goes wrong in it: 'import' - the script file cannot  *)
(* be executed (it is missing, or does not compile, so that nothing of it  *)
(* is executed), 'ui' - the function the launcher calls raises.            *)
(***************************************************************************)
Scripts ==
    {"minecraft_characters", "starwars_fleet", "fancy_3d_text_v2", "fancy_3d_text", "starship",
     "starship_v2", "font_diagnostic"}
Launchers ==
    {"RUN_MINECRAFT", "RUN_STARWARS_FLEET", "RUN_3D_TEXT", "RUN_3D_TEXT_V1", "RUN_IN_MAYA",
     "RUN_STARSHIP_V2", "RUN_FONT_DIAGNOSTIC"}
Faults == {"none", "import", "ui"}
\* The script a launcher loads and the names its from-import binds.
ScriptOf(launcher) ==
    CASE launcher = "RUN_MINECRAFT" -> "minecraft_characters"
      [] launcher = "RUN_STARWARS_FLEET" -> "starwars_fleet"
      [] launcher = "RUN_3D_TEXT" -> "fancy_3d_text_v2"
      [] launcher = "RUN_3D_TEXT_V1" -> "fancy_3d_text"
      [] launcher = "RUN_IN_MAYA" -> "starship"
      [] launcher = "RUN_STARSHIP_V2" -> "starship_v2"
      [] launcher = "RUN_FONT_DIAGNOSTIC" -> "font_diagnostic"
Imports(launcher) ==
    CASE launcher = "RUN_MINECRAFT" ->
            {"create_character", "create_village", "create_mob_horde", "show_ui"}
      [] launcher = "RUN_STARWARS_FLEET" -> {"create_ship", "create_fleet", "show_ui"}
      [] launcher \in {"RUN_3D_TEXT", "RUN_3D_TEXT_V1"} ->
            {"create_3d_text", "hello_world", "show_ui"}
      [] launcher = "RUN_IN_MAYA" -> {"create_starship", "create_fleet", "show_ui"}
      [] launcher = "RUN_STARSHIP_V2" -> {"create_starship", "create_squadron", "show_ui"}
      [] launcher = "RUN_FONT_DIAGNOSTIC" -> {"diagnose_fonts"}
Names == UNION {Imports(l) : l \in Launchers}
Unbound == <<"", 0>>
NoRun ==
    [launcher |-> None, raised |-> None, caught |-> None, printed |-> {}, executed |-> 0,
     loaded_before |-> 0, current |-> 0, bound |-> [n \in {} |-> Unbound], called |-> Unbound]
\* A session in which no launcher has run.
NewSession ==
    [path |-> <<>>, file |-> [m \in Scripts |-> 1], modules |-> [m \in Scripts |-> 0],
     names |-> [n \in Names |-> Unbound], steps |-> 0, out |-> NoRun, windows |-> <<>>]

\* A run in progress: the session, the exception in flight, the one caught,
\* what was printed, how often the script's code was executed, the function
\* called.
StartRun(s) ==
    [s |-> s, error |-> None, caught |-> None, printed |-> {}, executed |-> 0, called |-> Unbound]
\* A statement is skipped while an exception is in flight.
Flying(r) == r.error # None
\* scripts_path of each launcher, as it is spelled there.
scripts_path(launcher) ==
    IF launcher \in {"RUN_MINECRAFT", "RUN_STARWARS_FLEET"}
    THEN "c:\\Development\\maya\\scripts"
    ELSE "c:/Development/maya/scripts"
\* sys.path.insert(0, p) whatever sys.path holds.
InsertPath(r, p) == [r EXCEPT !.s.path = <<p>> \o @]
\* if scripts_path not in sys.path: sys.path.insert(0, scripts_path)
AddPath(r, p) ==
    IF \E i \in 1..Len(r.s.path) : r.s.path[i] = p THEN r
    ELSE [r EXCEPT !.s.path = <<p>> \o @]
\* The code of module m executed from its file.
Execute(r, m, fault) ==
    IF fault = "import" THEN [r EXCEPT !.error = "ImportError"]
    ELSE [r EXCEPT !.s.modules[m] = r.s.file[m], !.executed = @ + 1]
\* import m: executes the file only when sys.modules does not hold m.
Import(r, m, fault) ==
    IF Flying(r) \/ r.s.modules[m] # 0 THEN r ELSE Execute(r, m, fault)
\* The reload left out.
NotReloaded(r, m, fault) == r
\* importlib.reload(m)
Reload(r, m, fault) == IF Flying(r) THEN r ELSE Execute(r, m, fault)
\* if m in sys.modules: del sys.modules[m]
Forget(r, m) == IF Flying(r) THEN r ELSE [r EXCEPT !.s.modules[m] = 0]
\* The names bound to the functions of module m as loaded.
Bound(r, m, names) ==
    IF Flying(r) THEN r
    ELSE [r EXCEPT !.s.names = [n \in Names |-> IF n \in names THEN <<m, r.s.modules[m]>>
                                                ELSE @[n]]]
\* from m import names
FromImport(r, m, names, fault) == Bound(Import(r, m, fault), m, names)
\* print(...)
Say(r, what) == IF Flying(r) THEN r ELSE [r EXCEPT !.printed = @ \cup {what}]
\* name(): the call of the function the name is bound to.
Call(r, name, fault) ==
    IF Flying(r) THEN r
    ELSE IF fault = "ui" THEN [r EXCEPT !.error = "RuntimeError", !.called = r.s.names[name]]
    ELSE [r EXCEPT !.called = r.s.names[name]]
\* No handler: the exception stays in flight.
Uncaught(r) == r
\* except Exception as e: print the message, traceback.print_exc()
Except(r) ==
    IF Flying(r)
    THEN [r EXCEPT !.caught = r.error, !.error = None,
                   !.printed = @ \cup {"diagnostic", "traceback"}]
    ELSE r
\* The session a run of launcher leaves, pre being the session it started in.
EndRun(launcher, pre, r) ==
    [r.s EXCEPT !.steps = @ + 1,
                !.out = [launcher |-> launcher, raised |-> r.error, caught |-> r.caught,
                         printed |-> r.printed, executed |-> r.executed,
                         loaded_before |-> pre.modules[ScriptOf(launcher)],
                         current |-> pre.file[ScriptOf(launcher)],
                         bound |-> [n \in Imports(launcher) |-> r.s.names[n]],
                         called |-> r.called]]

\* import m; importlib.reload(m); from m import names
LoadReloaded(r, m, names, fault) ==
    FromImport(Reload(Import(r, m, fault), m, fault), m, names, fault)
\* RUN_MINECRAFT.py and RUN_STARWARS_FLEET.py: no try around the statements.
RUN_MINECRAFT(s, fault) ==
    EndRun("RUN_MINECRAFT", s,
           Call(LoadReloaded(AddPath(StartRun(s), scripts_path("RUN_MINECRAFT")), "minecraft_characters",
                             Imports("RUN_MINECRAFT"), fault),
                "show_ui", fault))
RUN_STARWARS_FLEET(s, fault) ==
    EndRun("RUN_STARWARS_FLEET", s,
           Call(LoadReloaded(AddPath(StartRun(s), scripts_path("RUN_STARWARS_FLEET")), "starwars_fleet",
                             Imports("RUN_STARWARS_FLEET"), fault),
                "show_ui", fault))
\* RUN_3D_TEXT.py and RUN_3D_TEXT_V1.py: import, reload, from-import, the
\* banner and show_ui() in a try.
RUN_3D_TEXT(s, fault) ==
    EndRun("RUN_3D_TEXT", s,
           Except(Call(Say(LoadReloaded(Say(AddPath(StartRun(s), scripts_path("RUN_3D_TEXT")), "loading"), "fancy_3d_text_v2",
                                        Imports("RUN_3D_TEXT"), fault),
                           "banner"),
                       "show_ui", fault)))
RUN_3D_TEXT_V1(s, fault) ==
    EndRun("RUN_3D_TEXT_V1", s,
           Except(Call(Say(LoadReloaded(Say(AddPath(StartRun(s), scripts_path("RUN_3D_TEXT_V1")), "loading"), "fancy_3d_text",
                                        Imports("RUN_3D_TEXT_V1"), fault),
                           "banner"),
                       "show_ui", fault)))
\* RUN_IN_MAYA.py: from starship import ..., the banner and show_ui() in a try.
RUN_IN_MAYA(s, fault) ==
    EndRun("RUN_IN_MAYA", s,
           Except(Call(Say(FromImport(Say(AddPath(StartRun(s), scripts_path("RUN_IN_MAYA")), "loading"), "starship",
                                      Imports("RUN_IN_MAYA"), fault),
                           "banner"),
                       "show_ui", fault)))
\* RUN_STARSHIP_V2.py: the module dropped from sys.modules, then imported.
RUN_STARSHIP_V2(s, fault) ==
    EndRun("RUN_STARSHIP_V2", s,
           Except(Call(Say(FromImport(Import(Forget(AddPath(StartRun(s), scripts_path("RUN_STARSHIP_V2")), "starship_v2"),
                                             "starship_v2", fault),
                                      "starship_v2", Imports("RUN_STARSHIP_V2"), fault),
                           "banner"),
                       "show_ui", fault)))
\* RUN_FONT_DIAGNOSTIC.py: from font_diagnostic import diagnose_fonts and the
\* call of it in a try.
RUN_FONT_DIAGNOSTIC(s, fault) ==
    EndRun("RUN_FONT_DIAGNOSTIC", s,
           Except(Say(Call(Say(FromImport(Say(AddPath(StartRun(s), scripts_path("RUN_FONT_DIAGNOSTIC")), "loading"),
                                          "font_diagnostic", Imports("RUN_FONT_DIAGNOSTIC"),
                                          fault),
                               "running"),
                           "diagnose_fonts", fault),
                      "complete")))
Launch(launcher, s, fault) ==
    CASE launcher = "RUN_MINECRAFT" -> RUN_MINECRAFT(s, fault)
      [] launcher = "RUN_STARWARS_FLEET" -> RUN_STARWARS_FLEET(s, fault)
      [] launcher = "RUN_3D_TEXT" -> RUN_3D_TEXT(s, fault)
      [] launcher = "RUN_3D_TEXT_V1" -> RUN_3D_TEXT_V1(s, fault)
      [] launcher = "RUN_IN_MAYA" -> RUN_IN_MAYA(s, fault)
      [] launcher = "RUN_STARSHIP_V2" -> RUN_STARSHIP_V2(s, fault)
      [] launcher = "RUN_FONT_DIAGNOSTIC" -> RUN_FONT_DIAGNOSTIC(s, fault)

(***************************************************************************)
(* fancy_3d_text.py: the choice of the font.  A font name is a sequence of *)
(* one-character strings.  The host's part is its font list (fontDialog    *)
(* -FontList, which may raise) and, for each candidate, what the probe     *)
(* cmds.textCurves(font=..., text="A") does: it raises, returns nothing or *)
(* returns curves, which the code deletes again.                           *)
(***************************************************************************)
\* No font: preferred_font None or empty (if preferred_font:).
NoFont == <<>>
\* c.lower()
Lower(c) ==
    IF \E k \in DOMAIN UpperChars : UpperChars[k] = c
    THEN LowerChars[CHOOSE k \in DOMAIN UpperChars : UpperChars[k] = c]
    ELSE c
LowerText(text) == [i \in DOMAIN text |-> Lower(text[i])]
\* s.startswith(p)
StartsWith(s, p) == Len(p) <= Len(s) /\ SubSeq(s, 1, Len(p)) = p
\* The first element of a list that passes a test, the list having one.
First(seq, Test(_)) ==
    seq[CHOOSE i \in DOMAIN seq : Test(seq[i]) /\ \A j \in 1..(i - 1) : ~Test(seq[j])]
AnyOf(seq, Test(_)) == \E i \in DOMAIN seq : Test(seq[i])

MAYA_FONT_CANDIDATES == <<
    <<"A", "r", "i", "a", "l", " ", "-", " ", "U", "l", "t", "r", "a", "C", "o", "n", "d", "e",
     "n", "s", "e", "d">>,
    <<"A", "r", "i", "a", "l", " ", "-", " ", "B", "o", "l", "d", " ", "U", "l", "t", "r", "a",
     "C", "o", "n", "d", "e", "n", "s", "e", "d">>,
    <<"T", "i", "m", "e", "s", " ", "N", "e", "w", " ", "R", "o", "m", "a", "n", " ", "-", " ",
     "U", "l", "t", "r", "a", "C", "o", "n", "d", "e", "n", "s", "e", "d">>,
    <<"C", "o", "u", "r", "i", "e", "r", " ", "N", "e", "w", " ", "-", " ", "U", "l", "t", "r",
     "a", "C", "o", "n", "d", "e", "n", "s", "e", "d">>,
    <<"V", "e", "r", "d", "a", "n", "a", " ", "-", " ", "U", "l", "t", "r", "a", "C", "o", "n",
     "d", "e", "n", "s", "e", "d">>,
    <<"T", "a", "h", "o", "m", "a", " ", "-", " ", "U", "l", "t", "r", "a", "C", "o", "n", "d",
     "e", "n", "s", "e", "d">>,
    <<"G", "e", "o", "r", "g", "i", "a", " ", "-", " ", "U", "l", "t", "r", "a", "C", "o", "n",
     "d", "e", "n", "s", "e", "d">>,
    <<"I", "m", "p", "a", "c", "t", " ", "-", " ", "U", "l", "t", "r", "a", "C", "o", "n", "d",
     "e", "n", "s", "e", "d">> >>
preferred_starters == <<
    <<"A", "r", "i", "a", "l">>,
    <<"T", "i", "m", "e", "s">>,
    <<"V", "e", "r", "d", "a", "n", "a">>,
    <<"T", "a", "h", "o", "m", "a">>,
    <<"C", "o", "u", "r", "i", "e", "r">> >>
LastResort ==
    <<"A", "r", "i", "a", "l", " ", "-", " ", "U", "l", "t", "r", "a", "C", "o", "n", "d", "e",
     "n", "s", "e", "d">>

\* get_maya_fonts(): the host's list, or nothing when the MEL call raises or
\* returns nothing.
get_maya_fonts(host_fonts, mel_raises) == IF mel_raises THEN <<>> ELSE host_fonts
\* The loop over MAYA_FONT_CANDIDATES: the first candidate whose probe returns
\* curves; a probe that raises or returns nothing is passed over.
\* The function left without a return after the loop.
no_last_resort(probes) == NoFont
\* return "Arial - UltraCondensed" after the loop.
last_resort(probes) == LastResort
probe_candidates(probes) ==
    IF \E i \in DOMAIN MAYA_FONT_CANDIDATES : probes[i] = "curves"
    THEN MAYA_FONT_CANDIDATES[CHOOSE i \in DOMAIN MAYA_FONT_CANDIDATES :
            probes[i] = "curves" /\ \A j \in 1..(i - 1) : probes[j] # "curves"]
    ELSE last_resort(probes)
\* The font taken from a list that is not empty: the first font that starts
\* with the first starter any font starts with, else the first font.
RECURSIVE by_starter(_, _)
by_starter(maya_fonts, k) ==
    IF k > Len(preferred_starters) THEN maya_fonts[1]
    ELSE IF AnyOf(maya_fonts, LAMBDA f : StartsWith(f, preferred_starters[k]))
    THEN First(maya_fonts, LAMBDA f : StartsWith(f, preferred_starters[k]))
    ELSE by_starter(maya_fonts, k + 1)
\* get_available_font(preferred_font)
get_available_font(preferred_font, host_fonts, mel_raises, probes) ==
    LET maya_fonts == get_maya_fonts(host_fonts, mel_raises)
    IN IF preferred_font # NoFont /\ preferred_font \in Range(maya_fonts)
       THEN preferred_font
       ELSE IF /\ preferred_font # NoFont
               /\ AnyOf(maya_fonts, LAMBDA f : StartsWith(LowerText(f), LowerText(preferred_font)))
       THEN First(maya_fonts, LAMBDA f : StartsWith(LowerText(f), LowerText(preferred_font)))
       ELSE IF maya_fonts # <<>> THEN by_starter(maya_fonts, 1)
       ELSE probe_candidates(probes)

(***************************************************************************)
(* show_ui of the six generators.  The windows of the host are a sequence  *)
(* of window names, in the order the windows were made.                    *)
(***************************************************************************)
Generators ==
    {"fancy_3d_text", "fancy_3d_text_v2", "minecraft_characters", "starship", "starship_v2",
     "starwars_fleet"}
\* window_name of show_ui in each generator
window_name(generator) ==
    CASE generator = "fancy_3d_text" -> "fancy3DTextWindow"
      [] generator = "fancy_3d_text_v2" -> "fancy3DTextUI"
      [] generator = "minecraft_characters" -> "minecraftCharUI"
      [] generator = "starship" -> "starshipUI"
      [] generator = "starship_v2" -> "starshipV2UI"
      [] generator = "starwars_fleet" -> "starwarsFleetUI"
\* How many windows have the name.
Count(windows, name) == Len(SelectSeq(windows, LAMBDA w : w = name))
\* cmds.window(name, exists=True)
window_exists(windows, name) == Count(windows, name) > 0
\* The window left where it is.
not_deleted(windows, name) == windows
\* cmds.deleteUI(name): the window of that name is gone.
deleteUI(windows, name) ==
    LET i == CHOOSE k \in 1..Len(windows) : windows[k] = name /\ \A j \in 1..(k - 1) : windows[j] # name
    IN SubSeq(windows, 1, i - 1) \o SubSeq(windows, i + 1, Len(windows))
\* cmds.window(name, ...) ... cmds.showWindow(window)
window(windows, name) == Append(windows, name)
\* show_ui(): the existing window deleted, a new one made and shown.
show_ui(windows, generator) ==
    window(IF window_exists(windows, window_name(generator))
           THEN deleteUI(windows, window_name(generator))
           ELSE windows,
           window_name(generator))

(***************************************************************************)
(* The state: the host scene and the record of the last call made from the *)
(* script console (function, arguments, the value returned, the exception  *)
(* that left the call, and for a group builder the handles its single-item *)
(* builder returned, in call order); and the Python session the launchers *)
(* run in.                                                                 *)
(***************************************************************************)
VARIABLES scene, mats, keys, last, session
vars == <<scene, mats, keys, last, session>>

Host == [scene |-> scene, mats |-> mats, keys |-> keys]
NoArg == [none |-> TRUE]

Init ==
    /\ scene = EmptyHost.scene
    /\ mats = EmptyHost.mats
    /\ keys = EmptyHost.keys
    /\ last = [fn |-> "none", arg |-> NoArg, ret |-> NoNode, raised |-> None, made |-> <<>>]
    /\ session = NewSession

\* A call is made in a new scene.
NewScene == last.fn = "none"
Return(fn, arg, r) ==
    /\ scene' = r.h.scene
    /\ mats' = r.h.mats
    /\ keys' = r.h.keys
    /\ last' = [fn |-> fn, arg |-> arg, ret |-> r.ret, raised |-> r.raised, made |-> <<>>]
    /\ UNCHANGED session
\* The same for a group builder, with the handles its single-item builder returned.
ReturnGroup(fn, arg, r) ==
    /\ scene' = r.h.scene
    /\ mats' = r.h.mats
    /\ keys' = r.h.keys
    /\ last' = [fn |-> fn, arg |-> arg, ret |-> r.ret, raised |-> r.raised, made |-> r.made]
    /\ UNCHANGED session

\* Bounds of the inputs.
MaxCount == 13
MaxLen == 11

\* The values random() returns, in hundredths.
RandomStreams == {<<0>>, <<99, 50, 0, 25>>}
Positions == {<<0, 0, 0>>, <<500, 0, -300>>}
UnknownKey == "unknown_type"

(* Arguments of the single-item builders. *)
CharacterArgs(char_type, name, position, pose, held_item, armor, q) ==
    [char_type |-> char_type, name |-> name, position |-> position, pose |-> pose,
     held_item |-> held_item, armor |-> armor, q |-> q]
CharacterCalls ==
    {CharacterArgs(c, None, <<0, 0, 0>>, "standing", None, None, q) :
        c \in DOMAIN CHARACTERS \cup {UnknownKey}, q \in {0, 99}}
    \cup {CharacterArgs(c, "hero", p, pose, item, None, 0) :
        c \in {"steve", "zombie", UnknownKey}, p \in {<<500, 0, -300>>},
        pose \in {"standing", "walking", "wave", "zombie", "dancing"},
        item \in {None, "sword", "pickaxe", "bow", "torch"}}
    \cup {CharacterArgs(c, "hero", p, "standing", None, a, 0) :
        c \in {"steve", "witch"}, p \in Positions,
        a \in DOMAIN ARMOR_TYPES \cup {None, "wood"}}
ShipArgs(ship_type, name, position, q) ==
    [ship_type |-> ship_type, name |-> name, position |-> position, q |-> q]
ShipCalls ==
    {ShipArgs(t, None, <<0, 0, 0>>, q) : t \in DOMAIN SHIP_TYPES \cup {UnknownKey}, q \in {0, 99}}
    \cup {ShipArgs(t, "red_five", p, 0) : t \in DOMAIN SHIP_TYPES \cup {UnknownKey}, p \in Positions}
StarshipV1Args(name, ship_type, color_scheme, add_animation) ==
    [name |-> name, ship_type |-> ship_type, color_scheme |-> color_scheme,
     add_animation |-> add_animation]
StarshipV1Calls ==
    {StarshipV1Args("starship", t, c, a) :
        t \in {"fighter", "cruiser", "bomber", "scout", UnknownKey},
        c \in DOMAIN SHIP_COLORS \cup {UnknownKey}, a \in BOOLEAN}
StarshipV2Args(name, ship_class, theme, add_animation, animation_style) ==
    [name |-> name, ship_class |-> ship_class, theme |-> theme,
     add_animation |-> add_animation, animation_style |-> animation_style]
StarshipV2Calls ==
    {StarshipV2Args("starship", c, t, TRUE, "hover") :
        c \in DOMAIN SHIP_CLASSES \cup {UnknownKey}, t \in DOMAIN SHIP_THEMES \cup {UnknownKey}}
    \cup {StarshipV2Args("red_five", c, "empire", a, s) :
        c \in {"interceptor", "racer"}, a \in BOOLEAN,
        s \in {"hover", "flyby", "banking", "loop"}}

create_character_call ==
    \E a \in CharacterCalls :
        /\ NewScene
        /\ Return("create_character", a,
                  create_character(Host, a.char_type, a.name, a.position, a.pose, a.held_item,
                                   a.armor, a.q))
create_ship_call ==
    \E a \in ShipCalls :
        /\ NewScene
        /\ Return("create_ship", a, create_ship(Host, a.ship_type, a.name, a.position, a.q))
create_starship_v1_call ==
    \E a \in StarshipV1Calls :
        /\ NewScene
        /\ Return("create_starship_v1", a,
                  create_starship_v1(Host, a.name, a.ship_type, a.color_scheme, a.add_animation))
create_starship_v2_call ==
    \E a \in StarshipV2Calls :
        /\ NewScene
        /\ Return("create_starship_v2", a,
                  create_starship_v2(Host, a.name, a.ship_class, a.theme, a.add_animation,
                                     a.animation_style))

(* Arguments of the group builders.  counts is the set of counts tried. *)
Formations(fn) ==
    CASE fn = "create_fleet_sw" -> {"attack", "patrol", "escort", "scatter"}
      [] fn = "create_fleet_v1" -> {"line", "v", "diamond", "random"}
      [] fn = "create_squadron" -> {"v", "line", "diamond", "echelon", "wedge"}
      [] fn = "create_mob_horde" -> {"line", "ambush", "swarm"}
GroupArgs(count, formation, kind, theme, rnd) ==
    [count |-> count, formation |-> formation, kind |-> kind, theme |-> theme, rnd |-> rnd]
\* A formation that draws random numbers is tried with every stream, the
\* others with one.
Streams(formation) ==
    IF formation \in {"scatter", "random", "swarm"} THEN RandomStreams ELSE {<<0>>}

create_fleet_sw_call(counts, factions) ==
    \E n \in counts, f \in Formations("create_fleet_sw"), k \in factions :
      \E r \in Streams(f) :
        /\ NewScene
        /\ ReturnGroup("create_fleet_sw", GroupArgs(n, f, k, None, r),
                       create_fleet_sw(Host, k, n, f, r))
create_fleet_v1_call(counts) ==
    \E n \in counts, f \in Formations("create_fleet_v1") :
      \E r \in Streams(f) :
        /\ NewScene
        /\ ReturnGroup("create_fleet_v1", GroupArgs(n, f, None, None, r),
                       create_fleet_v1(Host, n, f, r))
create_squadron_call(counts, classes, themes) ==
    \E n \in counts, f \in Formations("create_squadron"), k \in classes, t \in themes :
        /\ NewScene
        /\ ReturnGroup("create_squadron", GroupArgs(n, f, k, t, <<0>>),
                       create_squadron(Host, n, k, t, f))
create_village_call(counts) ==
    \E n \in counts, r \in RandomStreams :
        /\ NewScene
        /\ ReturnGroup("create_village", GroupArgs(n, "circle", None, None, r),
                       create_village(Host, n, 1000, r))
create_mob_horde_call(counts, mobs) ==
    \E n \in counts, f \in Formations("create_mob_horde"), k \in mobs :
      \E r \in Streams(f) :
        /\ NewScene
        /\ ReturnGroup("create_mob_horde", GroupArgs(n, f, k, None, r),
                       create_mob_horde(Host, k, n, f, r))

(* Arguments of the text generators. *)
\* The default text of both generators, and a character past it.
Sample == <<"H", "E", "L", "L", "O", " ", "W", "O", "R", "L", "D", "!", "?">>
Texts ==
    {SubSeq(Sample, 1, n) : n \in 0..MaxLen}
    \cup {<<" ">>, <<" ", " ">>, <<"h", "i">>, <<"A", " ", "B">>, <<"3">>, <<"A", "A">>}
AnimationTypes == {"wave", "bounce", "spin", "pop", "shake"}
Text1Args(text, color_preset, per_letter_colors, add_glow, add_animation, animation_type, bad, arnold) ==
    [text |-> text, color_preset |-> color_preset, per_letter_colors |-> per_letter_colors,
     add_glow |-> add_glow, add_animation |-> add_animation, animation_type |-> animation_type,
     bad |-> bad, arnold |-> arnold]
Text2Args(text, color_preset, add_glow, add_animation, animation_type, tool) ==
    [text |-> text, color_preset |-> color_preset, add_glow |-> add_glow,
     add_animation |-> add_animation, animation_type |-> animation_type, tool |-> tool]
TypeTools == {"raises", "no_node", "connected", "unconnected"}

\* Every preset and an unknown one, on two short texts.
Text1Presets ==
    {Text1Args(t, p, c, TRUE, TRUE, "wave", {}, a) :
        t \in {<<"H", "I">>, <<"A", " ", "B">>}, p \in DOMAIN COLOR_PRESETS_V1 \cup {UnknownKey},
        c \in BOOLEAN, a \in {TRUE}}
Text2Presets ==
    {Text2Args(t, p, TRUE, TRUE, "wave", tool) :
        t \in {<<"H", "I">>, <<"A", " ", "B">>}, p \in DOMAIN COLOR_PRESETS_V2 \cup {UnknownKey},
        tool \in {"raises", "connected"}}
\* Every text, with and without per-letter colours, animation and glyphs.
Text1Texts ==
    {Text1Args(t, p, c, g, TRUE, "wave", bad, a) :
        t \in Texts, p \in {"rainbow", "fire"}, c \in BOOLEAN, g \in {TRUE},
        bad \in {{}, {"L", "A"}}, a \in BOOLEAN}
    \cup {Text1Args(t, "rainbow", TRUE, g, an, ty, {}, TRUE) :
        t \in {<<"H", "I">>, <<"A", " ", "B">>, <<>>}, g \in BOOLEAN, an \in BOOLEAN,
        ty \in AnimationTypes}
Text2Texts ==
    {Text2Args(t, p, TRUE, FALSE, "wave", tool) :
        t \in Texts, p \in {"rainbow", "fire"}, tool \in TypeTools}
    \cup {Text2Args(t, "rainbow", g, an, ty, tool) :
        t \in {<<"H", "I">>, <<"A", " ", "B">>, <<>>}, g \in BOOLEAN, an \in BOOLEAN,
        ty \in AnimationTypes, tool \in {"raises", "connected"}}

create_3d_text_v1_call(calls) ==
    \E a \in calls :
        /\ NewScene
        /\ Return("create_3d_text_v1", a,
                  create_3d_text_v1(Host, a.text, a.color_preset, a.per_letter_colors, a.add_glow,
                                    a.add_animation, a.animation_type, a.bad, a.arnold))
create_3d_text_v2_call(calls) ==
    \E a \in calls :
        /\ NewScene
        /\ Return("create_3d_text_v2", a,
                  create_3d_text_v2(Host, a.text, a.color_preset, a.add_glow, a.add_animation,
                                    a.animation_type, a.tool))

(***************************************************************************)
(* Spec: one call of any generator in a new scene, with every key of every *)
(* table and a key that is in none.  SpecFleet: one call of a group        *)
(* builder, with every count up to MaxCount.  SpecText: one call of a text *)
(* generator, with every text.                                             *)
(***************************************************************************)
SmallCounts == {1, 3}
Next ==
    \/ create_character_call
    \/ create_ship_call
    \/ create_starship_v1_call
    \/ create_starship_v2_call
    \/ create_fleet_sw_call(SmallCounts, DOMAIN faction_ships \cup {UnknownKey})
    \/ create_fleet_v1_call(SmallCounts)
    \/ create_squadron_call(SmallCounts, {"interceptor", "bomber"}, {"empire", UnknownKey})
    \/ create_village_call(SmallCounts)
    \/ create_mob_horde_call(SmallCounts, {"zombie", "skeleton", "creeper", UnknownKey})
    \/ create_3d_text_v1_call(Text1Presets)
    \/ create_3d_text_v2_call(Text2Presets)
Spec == Init /\ [][Next]_vars

NextFleet ==
    \/ create_fleet_sw_call(1..MaxCount, {"rebel", UnknownKey})
    \/ create_fleet_v1_call(1..MaxCount)
    \/ create_squadron_call(1..MaxCount, {"heavy_fighter"}, {"federation"})
    \/ create_village_call(1..MaxCount)
    \/ create_mob_horde_call(1..MaxCount, {"zombie", "skeleton"})
SpecFleet == Init /\ [][NextFleet]_vars

NextText ==
    \/ create_3d_text_v1_call(Text1Texts)
    \/ create_3d_text_v2_call(Text2Texts)
SpecText == Init /\ [][NextText]_vars

(***************************************************************************)
(* SpecLaunch: a session in which launchers are run and script files are   *)
(* edited, MaxSteps times in all.                                          *)
(***************************************************************************)
MaxSteps == 3
\* The launcher pasted into the script console and run.
run_launcher(launcher) ==
    \E fault \in Faults :
        /\ session.steps < MaxSteps
        /\ session' = Launch(launcher, session, fault)
        /\ UNCHANGED <<scene, mats, keys, last>>
\* A script file saved with a change.
edit_script ==
    \E m \in Scripts :
        /\ session.steps < MaxSteps
        /\ session' = [session EXCEPT !.file[m] = @ + 1, !.steps = @ + 1]
        /\ UNCHANGED <<scene, mats, keys, last>>
NextLaunch ==
    \/ run_launcher("RUN_MINECRAFT")
    \/ run_launcher("RUN_STARWARS_FLEET")
    \/ run_launcher("RUN_3D_TEXT")
    \/ run_launcher("RUN_3D_TEXT_V1")
    \/ run_launcher("RUN_IN_MAYA")
    \/ run_launcher("RUN_STARSHIP_V2")
    \/ run_launcher("RUN_FONT_DIAGNOSTIC")
    \/ edit_script
SpecLaunch == Init /\ [][NextLaunch]_vars

(***************************************************************************)
(* The single-item builders called in a new scene with a host call that    *)
(* raises.                                                                 *)
(***************************************************************************)
FaultArgs(kind, name, look, pose, held_item, armor, fail, late) ==
    [kind |-> kind, name |-> name, look |-> look, pose |-> pose, held_item |-> held_item,
     armor |-> armor, fail |-> fail, late |-> late]
\* The steps of the builder a call reaches.
steps_of(fn, a) ==
    CASE fn = "create_starship_v1" -> build_v1(a.kind, colors_of(a.look))
      [] fn = "create_starship_v2" ->
            build_v2(ship_class_or_default(a.kind), a.name \o "_grp", theme_or_default(a.look))
      [] fn = "create_ship" ->
            builders(ship_type_or_default(a.kind), a.name,
                     SHIP_TYPES[ship_type_or_default(a.kind)])
      [] fn = "create_character" ->
            character_steps(a.name, CHARACTERS[char_type_or_default(a.kind)], a.pose,
                            a.held_item, a.armor)
\* The calls tried: every step of the builder, and the call after the last.
FaultCalls(fn, kinds, looks, stances, held_items, armors) ==
    UNION {{FaultArgs(k, "red_five", c, p, i, m, f, l) :
                f \in 1..(Len(steps_of(fn, FaultArgs(k, "red_five", c, p, i, m, 0, FALSE))) + 1),
                l \in BOOLEAN} :
           k \in kinds, c \in looks, p \in stances, i \in held_items, m \in armors}

create_starship_v1_raising_call ==
    \E a \in FaultCalls("create_starship_v1", {"fighter", "cruiser", UnknownKey}, {"rebel"},
                        {None}, {None}, {None}) :
        /\ NewScene
        /\ Return("create_starship_v1", a,
                  create_starship_v1_raising(Host, a.name, a.kind, a.look, a.fail, a.late))
create_starship_v2_raising_call ==
    \E a \in FaultCalls("create_starship_v2", {"interceptor", "racer"}, {"empire"},
                        {None}, {None}, {None}) :
        /\ NewScene
        /\ Return("create_starship_v2", a,
                  create_starship_v2_raising(Host, a.name, a.kind, a.look, a.fail, a.late))
create_ship_raising_call ==
    \E a \in FaultCalls("create_ship", {"xwing", "tie", UnknownKey}, {None}, {None}, {None},
                        {None}) :
        /\ NewScene
        /\ Return("create_ship", a, create_ship_raising(Host, a.kind, a.name, a.fail, a.late))
create_character_raising_call ==
    \E a \in FaultCalls("create_character", {"steve", "creeper"}, {None}, {"standing", "wave"},
                        {None, "sword"}, {None, "diamond"}) :
        /\ NewScene
        /\ Return("create_character", a,
                  create_character_raising(Host, a.kind, a.name, a.pose, a.held_item, a.armor,
                                           a.fail, a.late))

NextFault ==
    \/ create_starship_v1_raising_call
    \/ create_starship_v2_raising_call
    \/ create_ship_raising_call
    \/ create_character_raising_call
SpecFault == Init /\ [][NextFault]_vars

(***************************************************************************)
(* SpecFont: get_available_font called with a preferred font, a host font  *)
(* list and probe outcomes.                                                *)
(***************************************************************************)
HostFonts ==
    {<<"A", "r", "i", "a", "l", " ", "B", "l", "a", "c", "k">>,
     <<"a", "r", "i", "a", "l", " ", "n", "a", "r", "r", "o", "w">>,
     <<"C", "o", "m", "i", "c">>,
     <<"T", "i", "m", "e", "s">>}
\* The font lists the host reports: up to three fonts in any order.
FontLists ==
    {l \in UNION {[1..n -> HostFonts] : n \in 0..3} : Cardinality(Range(l)) = Len(l)}
PreferredFonts ==
    {NoFont, <<"A", "r", "i", "a", "l", " ", "B", "l", "a", "c", "k">>, <<"A", "R", "I", "A", "L">>,
     <<"c", "o", "m", "i", "c">>, <<"Z", "a", "p", "f">>}
\* The first three candidates probed with every outcome, the others raising.
ProbeOutcomes ==
    {[i \in DOMAIN MAYA_FONT_CANDIDATES |-> IF i <= 3 THEN p[i] ELSE "raises"] :
        p \in [1..3 -> {"raises", "nothing", "curves"}]}
FontArgs(preferred_font, host_fonts, mel_raises, probes) ==
    [preferred_font |-> preferred_font, host_fonts |-> host_fonts, mel_raises |-> mel_raises,
     probes |-> probes]
\* The probes leave the scene as it was: what they create they delete.
get_available_font_call ==
    \E f \in PreferredFonts, l \in FontLists, r \in BOOLEAN, p \in ProbeOutcomes :
        /\ NewScene
        /\ (l # <<>> /\ ~r) => p = [i \in DOMAIN MAYA_FONT_CANDIDATES |-> "raises"]
        /\ last' = [fn |-> "get_available_font", arg |-> FontArgs(f, l, r, p),
                    ret |-> get_available_font(f, l, r, p), raised |-> None, made |-> <<>>]
        /\ UNCHANGED <<scene, mats, keys, session>>
NextFont == get_available_font_call
SpecFont == Init /\ [][NextFont]_vars

(***************************************************************************)
(* SpecScene: calls made one after another from the script console into   *)
(* the same scene, MaxCalls at most; session.steps counts them.            *)
(***************************************************************************)
MaxCalls == 2
\* A call made in the scene as it is; r is its result.
ReturnInScene(fn, arg, r) ==
    /\ session.steps < MaxCalls
    /\ scene' = r.h.scene
    /\ mats' = r.h.mats
    /\ keys' = r.h.keys
    /\ last' = [fn |-> fn, arg |-> arg, ret |-> r.ret, raised |-> None, made |-> <<>>]
    /\ session' = [session EXCEPT !.steps = @ + 1]
MaterialArgs(name, color, emission, before) ==
    [name |-> name, color |-> color, emission |-> emission, before |-> before]
\* create_material(name, color, emission) of minecraft_characters.py
create_material_call ==
    \E name \in {"hero_skin", "hero_armor"}, color \in {<<72, 53, 40>>, <<90, 75, 20>>},
       emission \in {0, 50} :
        ReturnInScene("create_material", MaterialArgs(name, color, emission, Host),
                      create_material_mc(Host, name, color, emission))
\* create_character(char_type, name, ..., armor) in a scene that may hold
\* characters already.
create_character_next ==
    \E c \in {"steve", "zombie"}, n \in {None, "hero"}, a \in {None, "gold"} :
        ReturnInScene("create_character",
                      CharacterArgs(c, n, <<0, 0, 0>>, "standing", None, a, 0),
                      create_character(Host, c, n, <<0, 0, 0>>, "standing", None, a, 0))
\* The user's own cube, named like a material.
user_cube ==
    ReturnInScene("polyCube", NoArg, Ok(NewNode(Host, "polyCube", "hero_armor_mat"), Len(scene) + 1))
NextScene ==
    \/ create_material_call
    \/ create_character_next
    \/ user_cube
SpecScene == Init /\ [][NextScene]_vars

(***************************************************************************)
(* SpecRetype: create_3d_text of fancy_3d_text_v2.py called again and      *)
(* again in the same scene.  arg.before is the number of nodes the scene   *)
(* held when the call began.                                               *)
(***************************************************************************)
Text2ArgsIn(a, before) ==
    [text |-> a.text, color_preset |-> a.color_preset, add_glow |-> a.add_glow,
     add_animation |-> a.add_animation, animation_type |-> a.animation_type,
     tool |-> a.tool, before |-> before]
\* With a type node of an earlier call in the scene the list of polyType
\* nodes is not empty, so "no_node" is an outcome of a scene without one.
Text2Again ==
    {a \in {Text2Args(t, p, TRUE, an, "spin", tool) :
                t \in {<<"H", "I">>, <<"A">>}, p \in {"rainbow", "fire"}, an \in BOOLEAN,
                tool \in TypeTools} :
        a.tool = "no_node" => TypeMeshes(Host) = <<>>}
create_3d_text_v2_next ==
    \E a \in Text2Again :
        ReturnInScene("create_3d_text_v2", Text2ArgsIn(a, Len(scene)),
                      create_3d_text_v2(Host, a.text, a.color_preset, a.add_glow,
                                        a.add_animation, a.animation_type, a.tool))
NextRetype ==
    \/ create_3d_text_v2_next
SpecRetype == Init /\ [][NextRetype]_vars

(***************************************************************************)
(* SpecUI: show_ui of any generator called again and again in one session, *)
(* and windows closed by the user, MaxShows steps in all.                  *)
(***************************************************************************)
MaxShows == 4
UIArgs(generator, existed) == [generator |-> generator, existed |-> existed]
show_ui_call(generator) ==
    /\ session.steps < MaxShows
    /\ session' = [session EXCEPT !.windows = show_ui(@, generator), !.steps = @ + 1]
    /\ last' = [fn |-> "show_ui",
                arg |-> UIArgs(generator, window_exists(session.windows, window_name(generator))),
                ret |-> NoNode, raised |-> None, made |-> <<>>]
    /\ UNCHANGED <<scene, mats, keys>>
\* The user closes a window.
close_window ==
    \E i \in 1..Len(session.windows) :
        /\ session.steps < MaxShows
        /\ session' = [session EXCEPT !.windows = deleteUI(@, session.windows[i]), !.steps = @ + 1]
        /\ last' = [fn |-> "close_window", arg |-> NoArg, ret |-> NoNode, raised |-> None,
                    made |-> <<>>]
        /\ UNCHANGED <<scene, mats, keys>>
NextUI ==
    \/ show_ui_call("fancy_3d_text")
    \/ show_ui_call("fancy_3d_text_v2")
    \/ show_ui_call("minecraft_characters")
    \/ show_ui_call("starship")
    \/ show_ui_call("starship_v2")
    \/ show_ui_call("starwars_fleet")
    \/ close_window
SpecUI == Init /\ [][NextUI]_vars

(***************************************************************************)
(* SpecPath: launchers run one after another in a session whose sys.path   *)
(* holds entries of its own at the start; last.arg.path keeps the sys.path *)
(* the session started with.                                               *)
(***************************************************************************)
StartPaths ==
    {<<>>, <<"C:/maya/bin", "C:/maya/site-packages">>,
     <<"C:/maya/bin", "c:/Development/maya/scripts", "C:/maya/site-packages">>,
     <<"C:/maya/site-packages", "C:/maya/bin", "C:/maya/site-packages">>}
InitPath ==
    /\ scene = EmptyHost.scene
    /\ mats = EmptyHost.mats
    /\ keys = EmptyHost.keys
    /\ \E p \in StartPaths :
        /\ last = [fn |-> "session", arg |-> [path |-> p], ret |-> NoNode, raised |-> None,
                   made |-> <<>>]
        /\ session = [NewSession EXCEPT !.path = p]
NextPath ==
    \/ run_launcher("RUN_MINECRAFT")
    \/ run_launcher("RUN_STARWARS_FLEET")
    \/ run_launcher("RUN_3D_TEXT")
    \/ run_launcher("RUN_3D_TEXT_V1")
    \/ run_launcher("RUN_IN_MAYA")
    \/ run_launcher("RUN_STARSHIP_V2")
    \/ run_launcher("RUN_FONT_DIAGNOSTIC")
SpecPath == InitPath /\ [][NextPath]_vars

(***************************************************************************)
(* The properties.  Every behaviour is one call in a new scene; a property *)
(* of a call is an invariant on the state the call leaves.                 *)
(***************************************************************************)
\* The calls of the actions, on the arguments recorded in last.arg.
character_result(a) ==
    create_character(EmptyHost, a.char_type, a.name, a.position, a.pose, a.held_item, a.armor,
                     a.q)
ship_result(a) == create_ship(EmptyHost, a.ship_type, a.name, a.position, a.q)
starship_v1_result(a) ==
    create_starship_v1(EmptyHost, a.name, a.ship_type, a.color_scheme, a.add_animation)
starship_v2_result(a) ==
    create_starship_v2(EmptyHost, a.name, a.ship_class, a.theme, a.add_animation,
                       a.animation_style)
fleet_sw_result(a) == create_fleet_sw(EmptyHost, a.kind, a.count, a.formation, a.rnd)
text_v1_result(a) ==
    create_3d_text_v1(EmptyHost, a.text, a.color_preset, a.per_letter_colors, a.add_glow,
                      a.add_animation, a.animation_type, a.bad, a.arnold)
text_v2_result(a) ==
    create_3d_text_v2(EmptyHost, a.text, a.color_preset, a.add_glow, a.add_animation,
                      a.animation_type, a.tool)

\* The call returned, and left what the call r leaves.
Returned == last.raised = None
Same(r) == Returned /\ r.raised = None /\ Host = r.h /\ last.ret = r.ret
\* The same, but for the name of the node made last (the group of a fleet).
SameButGroupName(r) ==
    /\ Returned /\ r.raised = None /\ last.ret = r.ret
    /\ mats = r.h.mats /\ keys = r.h.keys /\ Len(scene) = Len(r.h.scene)
    /\ \A i \in DOMAIN scene :
          IF i = Len(scene) THEN [scene[i] EXCEPT !.name = ""] = [r.h.scene[i] EXCEPT !.name = ""]
          ELSE scene[i] = r.h.scene[i]
\* The colours of the materials in the scene.
ColorsUsed == {mats[i].color : i \in DOMAIN mats}
\* The material assigned to a node.
MaterialOf(node) == CHOOSE m \in Range(mats) : m.sg = scene[node].sg

\* C1: a call with a key that is in none of the entries of its table returns
\* and leaves what the same call with the default key leaves: create_character
\* 'steve', create_ship 'xwing', create_fleet 'mixed' (the fleet group keeps
\* the name made of the faction given), create_starship 'classic' and
\* 'fighter', create_starship of starship_v2 'federation' and 'interceptor',
\* both create_3d_text 'rainbow'.
C1_UnknownKeyUsesDefault ==
    /\ (last.fn = "create_character" /\ last.arg.char_type \notin DOMAIN CHARACTERS)
          => Same(character_result([last.arg EXCEPT !.char_type = "steve"]))
    /\ (last.fn = "create_ship" /\ last.arg.ship_type \notin DOMAIN SHIP_TYPES)
          => Same(ship_result([last.arg EXCEPT !.ship_type = "xwing"]))
    /\ (last.fn = "create_fleet_sw" /\ last.arg.kind \notin DOMAIN faction_ships)
          => SameButGroupName(fleet_sw_result([last.arg EXCEPT !.kind = "mixed"]))
    /\ (last.fn = "create_starship_v1" /\ last.arg.color_scheme \notin DOMAIN SHIP_COLORS)
          => Same(starship_v1_result([last.arg EXCEPT !.color_scheme = "classic"]))
    /\ (last.fn = "create_starship_v1"
            /\ last.arg.ship_type \notin {"fighter", "cruiser", "bomber", "scout"})
          => Same(starship_v1_result([last.arg EXCEPT !.ship_type = "fighter"]))
    /\ (last.fn = "create_starship_v2" /\ last.arg.theme \notin DOMAIN SHIP_THEMES)
          => Same(starship_v2_result([last.arg EXCEPT !.theme = "federation"]))
    /\ (last.fn = "create_starship_v2" /\ last.arg.ship_class \notin DOMAIN SHIP_CLASSES)
          => Same(starship_v2_result([last.arg EXCEPT !.ship_class = "interceptor"]))
    /\ (last.fn = "create_3d_text_v1" /\ last.arg.color_preset \notin DOMAIN COLOR_PRESETS_V1)
          => Same(text_v1_result([last.arg EXCEPT !.color_preset = "rainbow"]))
    /\ (last.fn = "create_3d_text_v2" /\ last.arg.color_preset \notin DOMAIN COLOR_PRESETS_V2)
          => Same(text_v2_result([last.arg EXCEPT !.color_preset = "rainbow"]))
\* A call of create_starship of starship_v2 with an unknown theme and an
\* unknown class has returned the group of a ship it built.
C1_Witness ==
    /\ last.fn = "create_starship_v2"
    /\ last.arg.theme \notin DOMAIN SHIP_THEMES /\ last.arg.ship_class \notin DOMAIN SHIP_CLASSES
    /\ Returned /\ last.ret # NoNode
    /\ SHIP_THEMES["federation"].hull_primary \in ColorsUsed
    /\ Len(scene) > 1

\* The colours of an entry of a table of named colours.
EntryColors(entry, fields) == {entry[f] : f \in fields}
\* C2: a call with a key listed in a table selects the key's own entry: the
\* colours of the entry are the colours of materials of what is built
\* (CHARACTERS, ARMOR_TYPES, SHIP_TYPES, SHIP_COLORS, and of SHIP_THEMES the
\* four colours every class uses), the first
\* letter has the first colour of the preset (COLOR_PRESETS), and a class of
\* SHIP_CLASSES other than 'interceptor' is not built as the default class
\* 'interceptor' is.
C2_ListedKeySelectsOwnEntry ==
    /\ (last.fn = "create_character" /\ last.arg.char_type \in DOMAIN CHARACTERS)
          => /\ Returned
             /\ EntryColors(CHARACTERS[last.arg.char_type],
                            {"skin", "shirt", "pants", "hair", "eyes", "shoes"}) \subseteq ColorsUsed
    /\ (last.fn = "create_character" /\ last.arg.armor \in DOMAIN ARMOR_TYPES)
          => Returned /\ ARMOR_TYPES[last.arg.armor] \in ColorsUsed
    /\ (last.fn = "create_ship" /\ last.arg.ship_type \in DOMAIN SHIP_TYPES)
          => /\ Returned
             /\ EntryColors(SHIP_TYPES[last.arg.ship_type],
                            {"hull", "accent", "engine", "cockpit"}) \subseteq ColorsUsed
    /\ (last.fn = "create_starship_v1" /\ last.arg.color_scheme \in DOMAIN SHIP_COLORS)
          => /\ Returned
             /\ EntryColors(SHIP_COLORS[last.arg.color_scheme],
                            {"hull", "accent", "engine", "cockpit"}) \subseteq ColorsUsed
    /\ (last.fn = "create_starship_v2" /\ last.arg.theme \in DOMAIN SHIP_THEMES)
          => /\ Returned
             /\ EntryColors(SHIP_THEMES[last.arg.theme],
                            {"hull_primary", "accent", "engine_glow", "cockpit"})
                    \subseteq ColorsUsed
    /\ (last.fn = "create_3d_text_v1" /\ last.arg.color_preset \in DOMAIN COLOR_PRESETS_V1
            /\ last.ret.meshes # <<>>)
          => MaterialOf(last.ret.meshes[1]).color = COLOR_PRESETS_V1[last.arg.color_preset][1]
    /\ (last.fn = "create_3d_text_v2" /\ last.arg.color_preset \in DOMAIN COLOR_PRESETS_V2
            /\ last.ret.meshes # <<>>)
          => MaterialOf(last.ret.meshes[1]).color = COLOR_PRESETS_V2[last.arg.color_preset][1]
    /\ (last.fn = "create_starship_v2" /\ last.arg.ship_class \in DOMAIN SHIP_CLASSES
            /\ last.arg.ship_class # "interceptor")
          => /\ Returned
             /\ scene # starship_v2_result([last.arg EXCEPT !.ship_class = "interceptor"]).h.scene

SingleBuilders == {"create_character", "create_ship", "create_starship_v1", "create_starship_v2"}
\* The nodes that are primitives, and the children of a node.
Primitives == {i \in DOMAIN scene : scene[i].kind # "transform"}
ChildrenOf(node) == {i \in DOMAIN scene : scene[i].parent = node}
\* '<name>_grp' for the name given, or for a name the builder generated: the
\* type it built, an underscore and a number.
GroupNames(fn, a) ==
    IF a.name # None THEN {a.name \o "_grp"}
    ELSE {key \o "_" \o Str(n) \o "_grp" :
            key \in (IF fn = "create_character" THEN DOMAIN CHARACTERS ELSE DOMAIN SHIP_TYPES),
            n \in 1..999}
\* C5: after a single-item builder has returned, every primitive in the scene
\* is a child of the node returned, which is a group, the only node named
\* '<name>_grp'.
C5_PartsUnderNamedGroup ==
    (last.fn \in SingleBuilders /\ Returned) =>
        /\ last.ret \in DOMAIN scene
        /\ scene[last.ret].kind = "transform"
        /\ scene[last.ret].name \in GroupNames(last.fn, last.arg)
        /\ Cardinality({i \in DOMAIN scene : scene[i].name = scene[last.ret].name}) = 1
        /\ Primitives # {}
        /\ \A i \in Primitives : scene[i].parent = last.ret
\* A ship of starwars_fleet.py built under a generated name, of ten parts or more.
C5_Witness ==
    /\ last.fn = "create_ship" /\ Returned /\ last.arg.name = None
    /\ Cardinality(Primitives) >= 10
    /\ ChildrenOf(last.ret) = Primitives

GroupBuilders ==
    {"create_fleet_sw", "create_fleet_v1", "create_squadron", "create_village",
     "create_mob_horde"}
\* The instances a group builder made, numbered from 0 as its loop does.
Items == 0..(Len(last.made) - 1)
Instance(i) == scene[last.made[i + 1]]
\* C6 as stated: every group builder calls its single-item builder count
\* times and returns a group of count instances.
C6_CountInstances ==
    last.fn \in GroupBuilders =>
        /\ Returned
        /\ Len(last.made) = last.arg.count
        /\ Cardinality(ChildrenOf(last.ret)) = last.arg.count
\* The number of instances create_squadron builds: twelve at most.
Capped(fn, count) == IF fn = "create_squadron" /\ count > 12 THEN 12 ELSE count
\* C6, amended: create_squadron builds min(count, 12) ships; the other group
\* builders build count instances.  The group returned holds just the
\* instances built, each once.
C6_CountInstancesCapped ==
    last.fn \in GroupBuilders =>
        /\ Returned
        /\ Len(last.made) = Capped(last.fn, last.arg.count)
        /\ Cardinality(Range(last.made)) = Len(last.made)
        /\ ChildrenOf(last.ret) = Range(last.made)
\* A squadron asked for with more than twelve ships, returned with twelve.
C6_Witness ==
    /\ last.fn = "create_squadron" /\ last.arg.count > 12 /\ Returned
    /\ Cardinality(ChildrenOf(last.ret)) = 12

\* The V formations, and in each the offset of item i to the side and to the
\* back (starwars_fleet.py flies along x, the starships along z).
VFormation ==
    \/ last.fn = "create_fleet_v1" /\ last.arg.formation = "v"
    \/ last.fn = "create_squadron" /\ last.arg.formation = "v"
    \/ last.fn = "create_fleet_sw" /\ last.arg.formation = "attack"
Lateral(i) == IF last.fn = "create_fleet_sw" THEN Instance(i).pos[3] ELSE Instance(i).pos[1]
Depth(i) == IF last.fn = "create_fleet_sw" THEN Instance(i).pos[1] ELSE Instance(i).pos[3]
Behind(i) == Depth(i) < 0
\* Two items at one depth behind the front are at opposite offsets to the side.
RowsMirrored ==
    \A i, j \in Items : (i # j /\ Behind(i) /\ Depth(i) = Depth(j)) =>
        Lateral(i) = -Lateral(j) /\ Lateral(i) # 0
\* The items behind the front lie on one side when i is even, on the other
\* when i is odd.
SidesByParity ==
    \A i, j \in Items : (Behind(i) /\ Behind(j)) =>
        /\ Lateral(i) # 0
        /\ (Lateral(i) > 0 <=> Lateral(j) > 0) <=> (i % 2 = j % 2)
\* C7 as stated: every V formation mirrors by the parity of i.
C7_VMirrorsByParity == (VFormation /\ Returned) => (RowsMirrored /\ SidesByParity)
\* C7, amended: 'v' of starship_v2 and 'attack' mirror by the parity of i:
\* items 0 and 1 are both at the front position, and behind them items 2r and
\* 2r + 1 share a depth, the even one on one side and the odd one at the
\* opposite offset.  'v' of starship.py mirrors about the middle index
\* c = count // 2 instead: item c is at the front, items below c lie on one
\* side and items above c on the other, and items c - d and c + d share a
\* depth at opposite offsets.
C7_VMirrors ==
    (VFormation /\ Returned) =>
        /\ RowsMirrored
        /\ last.fn # "create_fleet_v1" =>
              /\ SidesByParity
              /\ \A i \in Items : Behind(i) <=> i >= 2
              /\ \A i \in Items : i <= 1 => Instance(i).pos = <<0, 0, 0>>
              /\ \A i \in Items : (i % 2 = 0 /\ i + 1 \in Items) => Depth(i) = Depth(i + 1)
        /\ last.fn = "create_fleet_v1" =>
              LET c == last.arg.count \div 2 IN
              /\ \A i \in Items : Behind(i) <=> i # c
              /\ \A i \in Items : (i < c => Lateral(i) < 0) /\ (i > c => Lateral(i) > 0)
              /\ \A i, j \in Items : i + j = 2 * c => Depth(i) = Depth(j)
\* A V of starship_v2 and one of starship.py, of five ships or more.
C7_Witness ==
    /\ VFormation /\ Returned /\ last.fn = "create_squadron" /\ Len(last.made) >= 5
    /\ Behind(2) /\ Depth(2) = Depth(3) /\ Lateral(2) = -Lateral(3)

\* The circle formations and the radius of each.
CircleFormation ==
    \/ last.fn = "create_fleet_v1" /\ last.arg.formation = "diamond"
    \/ last.fn = "create_squadron" /\ last.arg.formation = "diamond"
    \/ last.fn = "create_fleet_sw" /\ last.arg.formation = "escort"
CircleRadius == IF last.fn = "create_fleet_sw" THEN 800 ELSE 500
\* C8 as stated: item i of count is at 360 * i / count degrees on the circle.
C8_CircleByIndex ==
    (CircleFormation /\ Returned) =>
        \A i \in Items :
            Instance(i).pos = OnCircle(CircleRadius, Frac(i, last.arg.count), 100, 100)
\* C8, amended: 'diamond' of starship.py and of starship_v2 place item i at
\* 360 * i / n degrees on a circle of radius 5, n being the number of ships
\* built (count, in starship_v2 twelve at most); 'escort' places item 0 at
\* the centre and item i >= 1 at 360 * (i - 1) / (count - 1) degrees on a
\* circle of radius 8.
C8_CircleOrEscort ==
    (CircleFormation /\ Returned) =>
        \A i \in Items :
            Instance(i).pos =
                IF last.fn # "create_fleet_sw"
                THEN OnCircle(500, Frac(i, Capped(last.fn, last.arg.count)), 100, 100)
                ELSE IF i = 0 THEN <<0, 0, 0>>
                ELSE OnCircle(800, Frac(i - 1, last.arg.count - 1), 100, 100)
\* Four ships of starship.py in a diamond, the second a quarter turn round
\* on the circle of radius 5.
C8_Witness ==
    /\ CircleFormation /\ Returned /\ last.fn = "create_fleet_v1" /\ last.arg.count = 4
    /\ Instance(1).pos.turn = <<1, 4>> /\ Instance(1).pos.radius = 500

\* A call of create_3d_text of fancy_3d_text_v2.py in which the Type tool
\* raised or made no mesh.
FallbackTaken == last.fn = "create_3d_text_v2" /\ last.arg.tool \in {"raises", "no_node"}
\* The positions of the text, from 0, that hold a character other than a space.
LetterPositions == {i \in 0..(Len(last.arg.text) - 1) : last.arg.text[i + 1] # " "}
TextCalls == {"create_3d_text_v1", "create_3d_text_v2"}
\* A call with animation asked for and an animation type that is not one of
\* the four.
UnknownAnimation ==
    /\ last.fn \in TextCalls /\ last.arg.add_animation
    /\ last.arg.animation_type \notin {"wave", "bounce", "spin", "pop"}
TextResult(a) == IF last.fn = "create_3d_text_v1" THEN text_v1_result(a) ELSE text_v2_result(a)
\* C4 as stated: an unknown animation type sets the keyframes of 'wave'.
C4_UnknownAnimationIsWave ==
    UnknownAnimation =>
        Returned /\ keys = TextResult([last.arg EXCEPT !.animation_type = "wave"]).h.keys
\* C4, amended: with animation enabled, an animation type that is not one of
\* the four raises nothing and sets no keyframe: the call leaves what it
\* leaves with animation disabled.
C4_UnknownAnimationSetsNoKey ==
    UnknownAnimation =>
        /\ Returned /\ keys = {}
        /\ Same(TextResult([last.arg EXCEPT !.add_animation = FALSE]))
\* A text of two meshes built by fancy_3d_text_v2.py with an unknown animation type.
C4_Witness ==
    /\ UnknownAnimation /\ Returned /\ last.fn = "create_3d_text_v2"
    /\ Len(last.ret.meshes) = 2 /\ keys = {}

\* The node of a name, and the mesh fancy_3d_text.py makes of the character
\* at position i.
NodesNamed(name) == {n \in DOMAIN scene : scene[n].name = name}
LetterName(i) == "letter_" \o last.arg.text[i + 1] \o "_" \o Str(i) \o "_mesh"
\* The mesh fancy_3d_text_v2.py shows the character at position i in: the one
\* mesh of the Type tool, or the fallback's mesh of that character.
LetterMesh(i) ==
    IF Len(last.ret.meshes) = 1 /\ ~FallbackTaken THEN last.ret.meshes[1]
    ELSE last.ret.meshes[Cardinality({j \in LetterPositions : j <= i})]
\* colors[i % len(colors)], sequences being 1-based here.
Cycled(colors, i) == colors[(i % Len(colors)) + 1]
\* What C9 says of fancy_3d_text.py: every letter built has the first colour
\* of the palette when per-letter colours are off, and the colour
\* i % len(palette), i being its position in the text, when they are on.
PerLetterV1 ==
    (last.fn = "create_3d_text_v1" /\ Returned) =>
        \A i \in LetterPositions :
            last.arg.text[i + 1] \notin last.arg.bad =>
                \E n \in NodesNamed(LetterName(i)) :
                    MaterialOf(n).color =
                        IF last.arg.per_letter_colors
                        THEN Cycled(COLOR_PRESETS_V1[last.arg.color_preset], i)
                        ELSE COLOR_PRESETS_V1[last.arg.color_preset][1]
\* C9 as stated, fancy_3d_text_v2.py having per-letter colours only: there
\* too the letter at position i has the colour i % len(palette).
C9_ColourByLetterIndex ==
    /\ PerLetterV1
    /\ (last.fn = "create_3d_text_v2" /\ Returned) =>
          \A i \in LetterPositions :
              MaterialOf(LetterMesh(i)).color = Cycled(COLOR_PRESETS_V2[last.arg.color_preset], i)
\* C9, amended: in fancy_3d_text.py as stated, i being the position of the
\* letter in the text, spaces counted.  fancy_3d_text_v2.py has no switch and
\* colours by mesh: mesh k of the list returned has the colour
\* k % len(palette), so the one mesh of the Type tool has the first colour and
\* a letter of the fallback the colour of its rank among the characters that
\* are not spaces.
C9_ColourByLetterOrMesh ==
    /\ PerLetterV1
    /\ (last.fn = "create_3d_text_v2" /\ Returned) =>
          \A k \in 0..(Len(last.ret.meshes) - 1) :
              MaterialOf(last.ret.meshes[k + 1]).color =
                  Cycled(COLOR_PRESETS_V2[last.arg.color_preset], k)
\* HELLO WORLD built whole by fancy_3d_text.py in the first colour only.
C9_Witness ==
    /\ last.fn = "create_3d_text_v1" /\ Returned /\ ~last.arg.per_letter_colors
    /\ Len(last.ret.meshes) >= 9
    /\ \A k \in DOMAIN last.ret.meshes :
          MaterialOf(last.ret.meshes[k]).color = COLOR_PRESETS_V1[last.arg.color_preset][1]

\* A call with the rainbow preset (and per-letter colours, where there is the switch).
Rainbow ==
    /\ last.fn \in TextCalls /\ Returned /\ last.arg.color_preset = "rainbow"
    /\ last.fn = "create_3d_text_v1" => last.arg.per_letter_colors
\* The colour of item i: in fancy_3d_text.py the letter at position i, in
\* fancy_3d_text_v2.py mesh i of the list.
HasItem(i) ==
    IF last.fn = "create_3d_text_v1"
    THEN i < Len(last.arg.text) /\ NodesNamed(LetterName(i)) # {}
    ELSE i < Len(last.ret.meshes)
ItemColor(i) ==
    IF last.fn = "create_3d_text_v1"
    THEN MaterialOf(CHOOSE n \in NodesNamed(LetterName(i)) : TRUE).color
    ELSE MaterialOf(last.ret.meshes[i + 1]).color
RainbowOf(fn) ==
    IF fn = "create_3d_text_v1" THEN COLOR_PRESETS_V1["rainbow"] ELSE COLOR_PRESETS_V2["rainbow"]
\* C10 as stated: in both generators item 7 of a rainbow text has the first
\* colour of the palette.
C10_RainbowWrapsAtSeven ==
    (Rainbow /\ HasItem(7)) => ItemColor(7) = RainbowOf(last.fn)[1]
\* C10, amended: the rainbow of fancy_3d_text.py has 7 entries and index 7
\* wraps to entry 0; the rainbow of fancy_3d_text_v2.py has 8 entries, index
\* 7 is its last entry and index 8 wraps to entry 0.
C10_RainbowWraps ==
    /\ Len(COLOR_PRESETS_V1["rainbow"]) = 7 /\ Len(COLOR_PRESETS_V2["rainbow"]) = 8
    /\ (Rainbow /\ last.fn = "create_3d_text_v1" /\ HasItem(7)) =>
          ItemColor(7) = COLOR_PRESETS_V1["rainbow"][1]
    /\ (Rainbow /\ last.fn = "create_3d_text_v2" /\ HasItem(7)) =>
          ItemColor(7) = COLOR_PRESETS_V2["rainbow"][8] /\ ItemColor(7) # ItemColor(0)
    /\ (Rainbow /\ last.fn = "create_3d_text_v2" /\ HasItem(8)) =>
          ItemColor(8) = COLOR_PRESETS_V2["rainbow"][1]
\* A rainbow text of fancy_3d_text_v2.py of nine meshes, the ninth in the
\* colour of the first.
C10_Witness ==
    /\ Rainbow /\ last.fn = "create_3d_text_v2" /\ HasItem(8)
    /\ ItemColor(8) = ItemColor(0) /\ ItemColor(7) # ItemColor(0)

\* The call of the group builder fn on the arguments a, in a new scene.
group_result(fn, a) ==
    CASE fn = "create_fleet_sw" -> create_fleet_sw(EmptyHost, a.kind, a.count, a.formation, a.rnd)
      [] fn = "create_fleet_v1" -> create_fleet_v1(EmptyHost, a.count, a.formation, a.rnd)
      [] fn = "create_squadron" -> create_squadron(EmptyHost, a.count, a.kind, a.theme, a.formation)
      [] fn = "create_village" -> create_village(EmptyHost, a.count, 1000, a.rnd)
      [] OTHER -> create_mob_horde(EmptyHost, a.kind, a.count, a.formation, a.rnd)
\* The positions of the instances of a call, in the order of their index.
PositionsOf(r) == [i \in DOMAIN r.made |-> r.h.scene[r.made[i]].pos]
Placed == [i \in DOMAIN last.made |-> scene[last.made[i]].pos]
\* The same call once more, the random module returning the values of stream r.
Again(r) == group_result(last.fn, [last.arg EXCEPT !.rnd = r])
\* The circle and the angle of a position, without the factors along x and z.
Spoke(pos) == [radius |-> pos.radius, turn |-> pos.turn]
\* The calls whose placement reads the random module: every formation of
\* create_fleet of starwars_fleet.py but 'attack', 'patrol' and 'escort',
\* every formation of create_fleet of starship.py but 'line', 'v' and
\* 'diamond', every formation of create_mob_horde but 'line' and 'ambush',
\* and create_village.
DrawsPlacement ==
    \/ last.fn = "create_fleet_sw" /\ last.arg.formation \notin {"attack", "patrol", "escort"}
    \/ last.fn = "create_fleet_v1" /\ last.arg.formation \notin {"line", "v", "diamond"}
    \/ last.fn = "create_mob_horde" /\ last.arg.formation \notin {"line", "ambush"}
    \/ last.fn = "create_village"
\* C11 as stated: a second call with the same formation and count places
\* every item where the first did, whatever the random module returns.
C11_PlacementPure ==
    (last.fn \in GroupBuilders /\ Returned) =>
        \A r \in RandomStreams : PositionsOf(Again(r)) = Placed
\* C11, amended: in the formations that do not read the random module a
\* second call with the same formation and count places every item where the
\* first did; create_village keeps the angle 360 * i / count and the radius of
\* item i and draws its factors along x and z; the remaining formations draw
\* the whole position.
C11_PlacementPureUnlessDrawn ==
    (last.fn \in GroupBuilders /\ Returned) =>
        \A r \in RandomStreams :
            Let(PositionsOf(Again(r)),
                LAMBDA again :
                    /\ DOMAIN again = DOMAIN Placed
                    /\ ~DrawsPlacement => again = Placed
                    /\ last.fn = "create_village" =>
                          \A i \in DOMAIN Placed :
                              /\ Spoke(again[i]) = Spoke(Placed[i])
                              /\ Placed[i].turn = Frac(i - 1, last.arg.count))
\* An ambush of three mobs: a second call with other random values builds
\* mobs of other names at the same three places.
C11_Witness ==
    /\ last.fn = "create_mob_horde" /\ last.arg.formation = "ambush" /\ last.arg.count = 3
    /\ Returned /\ Len(last.made) = 3
    /\ Let(Again(<<99, 50, 0, 25>>),
           LAMBDA r : r.h.scene # scene /\ PositionsOf(r) = Placed)

\* The line formations, and the distance between two neighbours of each, in
\* hundredths.
LineFormation ==
    \/ last.fn \in {"create_fleet_v1", "create_squadron", "create_mob_horde"}
          /\ last.arg.formation = "line"
    \/ last.fn = "create_fleet_sw" /\ last.arg.formation = "patrol"
LineSpacing ==
    CASE last.fn = "create_fleet_sw" -> 600
      [] last.fn = "create_mob_horde" -> 200
      [] OTHER -> 400
\* C12: in a line formation item i stands at x = i * spacing, y = 0, z = 0,
\* the spacing being 4 in starship.py and starship_v2.py, 6 in
\* starwars_fleet.py and 2 in create_mob_horde.
C12_LineBySpacing ==
    (LineFormation /\ Returned) =>
        \A i \in Items : Instance(i).pos = <<i * LineSpacing, 0, 0>>
\* A line of three ships or more of starship.py, the third at x = 8.
C12_Witness ==
    /\ LineFormation /\ Returned /\ last.fn = "create_fleet_v1" /\ Len(last.made) >= 3
    /\ Instance(2).pos = <<800, 0, 0>>

\* A call of create_character with a pose that is none of the four.
UnknownPose ==
    last.fn = "create_character"
    /\ last.arg.pose \notin {"standing", "walking", "wave", "zombie"}
\* The names of the arms, legs and shoes of the character called name.
Limbs(name) ==
    {name \o part \o SideStr(side) :
        part \in {"_upper_arm_", "_lower_arm_", "_upper_leg_", "_lower_leg_", "_shoe_"},
        side \in Range(Sides)}
\* C13: create_character with a pose that is none of 'standing', 'walking',
\* 'wave', 'zombie' returns and leaves what the call with 'standing' leaves:
\* no arm and no leg is turned.
C13_UnknownPoseStands ==
    UnknownPose =>
        /\ Same(character_result([last.arg EXCEPT !.pose = "standing"]))
        /\ \A i \in DOMAIN scene : scene[i].name \in Limbs(last.arg.name) =>
                                        scene[i].rot = <<0, 0, 0>>
\* A character asked to dance, built as no waving and no walking one is.
C13_Witness ==
    /\ UnknownPose /\ Returned /\ last.arg.pose = "dancing" /\ last.arg.char_type = "zombie"
    /\ \E i \in DOMAIN scene : scene[i].name \in Limbs("hero")
    /\ character_result([last.arg EXCEPT !.pose = "wave"]).h # Host
    /\ character_result([last.arg EXCEPT !.pose = "walking"]).h # Host

\* The positions of the text, from 0, whose letter the host can build: the
\* character is no space, cmds.textCurves gives it curves and one extrusion at
\* least succeeds.
BuiltPositions ==
    SelectSeq([k \in 1..Len(last.arg.text) |-> k - 1],
              LAMBDA i : last.arg.text[i + 1] \notin last.arg.bad \cup {" "})
\* C14: create_3d_text of fancy_3d_text.py skips a letter whose curves or
\* extrusions raise and goes on with the letters after it: the call returns,
\* and the meshes returned are those of the letters the host could build, one
\* each, in the order of the text.
C14_FailedLetterSkipped ==
    last.fn = "create_3d_text_v1" =>
        /\ Returned
        /\ [k \in DOMAIN last.ret.meshes |-> scene[last.ret.meshes[k]].name]
              = [k \in DOMAIN BuiltPositions |-> LetterName(BuiltPositions[k])]
        /\ (last.ret.group = NoNode) <=> (BuiltPositions = <<>>)
\* 'HELLO' where no L can be built: H, E and the O after the two L are.
C14_Witness ==
    /\ last.fn = "create_3d_text_v1" /\ Returned
    /\ last.arg.text = <<"H", "E", "L", "L", "O">> /\ "L" \in last.arg.bad
    /\ BuiltPositions = <<0, 1, 4>> /\ Len(last.ret.meshes) = 3

\* The last run of a launcher met an error: one left the launcher or one was
\* caught in it.
RunFailed ==
    session.out.launcher # None /\ (session.out.raised # None \/ session.out.caught # None)
Diagnosed == {"diagnostic", "traceback"} \subseteq session.out.printed
\* The launchers whose statements stand in no try.
BareLaunchers == {"RUN_MINECRAFT", "RUN_STARWARS_FLEET"}
\* C15 as stated: no error leaves a launcher; the launcher prints a
\* diagnostic and a traceback instead.
C15_LauncherCatches == RunFailed => (session.out.raised = None /\ Diagnosed)
\* C15, amended: RUN_3D_TEXT, RUN_3D_TEXT_V1, RUN_IN_MAYA, RUN_STARSHIP_V2 and
\* RUN_FONT_DIAGNOSTIC catch an error raised while the script loads or the
\* function is called, and print a diagnostic and a traceback; out of
\* RUN_MINECRAFT and RUN_STARWARS_FLEET the error goes on to the console and
\* the launcher prints nothing.
C15_LauncherCatchesInTry ==
    RunFailed =>
        IF session.out.launcher \in BareLaunchers
        THEN session.out.raised # None /\ session.out.caught = None /\ session.out.printed = {}
        ELSE session.out.raised = None /\ session.out.caught # None /\ Diagnosed
\* RUN_3D_TEXT run when its script cannot be imported.
C15_Witness ==
    /\ session.out.launcher = "RUN_3D_TEXT" /\ session.out.caught = "ImportError"
    /\ session.out.raised = None /\ Diagnosed /\ session.out.executed = 0

\* The last run of a launcher found its script loaded and met no error.
RunAgain ==
    /\ session.out.launcher # None /\ session.out.loaded_before # 0
    /\ session.out.raised = None /\ session.out.caught = None
\* Every name of the launcher's from-import is bound to a function of
\* version v of its script.
BoundTo(v) ==
    \A n \in Imports(session.out.launcher) :
        session.out.bound[n] = <<ScriptOf(session.out.launcher), v>>
\* The launchers that import their script without reloading it.
PlainImporters == {"RUN_IN_MAYA", "RUN_FONT_DIAGNOSTIC"}
\* C16 as stated: a launcher run when its script is loaded executes the
\* script's code again and binds its names to the functions of the file as
\* it is.
C16_LauncherReimports ==
    RunAgain => (session.out.executed >= 1 /\ BoundTo(session.out.current))
\* C16, amended: RUN_MINECRAFT, RUN_STARWARS_FLEET, RUN_3D_TEXT,
\* RUN_3D_TEXT_V1 and RUN_STARSHIP_V2 do as stated; RUN_IN_MAYA and
\* RUN_FONT_DIAGNOSTIC, run when their script is loaded, execute none of it
\* and bind their names to the functions loaded before, whatever the file
\* holds by now.
C16_LauncherReimportsIfReloading ==
    RunAgain =>
        IF session.out.launcher \in PlainImporters
        THEN session.out.executed = 0 /\ BoundTo(session.out.loaded_before)
        ELSE session.out.executed = 1 /\ BoundTo(session.out.current)
\* RUN_STARSHIP_V2 run, starship_v2.py edited, RUN_STARSHIP_V2 run again.
C16_Witness ==
    /\ RunAgain /\ session.out.launcher = "RUN_STARSHIP_V2"
    /\ session.out.loaded_before = 1 /\ session.out.current = 2
    /\ session.out.executed = 1 /\ session.out.bound["show_ui"] = <<"starship_v2", 2>>

\* The last call was left by the exception of a host call.
Interrupted == last.fn # "none" /\ "fail" \in DOMAIN last.arg
\* The generators that make the empty ship group before anything else.
GroupFirst == {"create_starship_v1", "create_starship_v2"}
\* The nodes the steps before the failing call create, and the node the
\* failing step created before its later call raised.
RECURSIVE NodesMade(_, _)
NodesMade(steps, n) ==
    IF n = 0 THEN 0
    ELSE NodesMade(steps, n - 1) + (IF steps[n].op \in {"prim", "part", "part2"} THEN 1 ELSE 0)
NodesBefore(steps, fail, late) ==
    NodesMade(steps, fail - 1) +
    (IF fail <= Len(steps) /\ late /\ steps[fail].op \in {"part", "part2"} THEN 1 ELSE 0)
\* The scene the same call leaves when no host call raises.
Unbroken ==
    CASE last.fn = "create_starship_v1" ->
            create_starship_v1(EmptyHost, last.arg.name, last.arg.kind, last.arg.look, FALSE).h
      [] last.fn = "create_starship_v2" ->
            create_starship_v2(EmptyHost, last.arg.name, last.arg.kind, last.arg.look, FALSE,
                               "hover").h
      [] last.fn = "create_ship" ->
            create_ship(EmptyHost, last.arg.kind, last.arg.name, <<0, 0, 0>>, 0).h
      [] last.fn = "create_character" ->
            create_character(EmptyHost, last.arg.kind, last.arg.name, <<0, 0, 0>>, last.arg.pose,
                             last.arg.held_item, last.arg.armor, 0).h
SameNode(a, b) == a.name = b.name /\ a.kind = b.kind
NotTransactional(whole, made) ==
    /\ last.raised # None /\ last.ret = NoNode
    /\ Len(scene) = made + (IF last.fn \in GroupFirst THEN 1 ELSE 0)
    /\ \A i \in DOMAIN scene :
        /\ SameNode(scene[i],
                    whole[i])
        /\ scene[i].parent \in {0} \cup (IF last.fn \in GroupFirst THEN {1} ELSE {})
    /\ last.fn \in GroupFirst =>
        /\ scene[1].name = last.arg.name \o "_grp" /\ scene[1].kind = "transform"
        /\ scene[1].parent = 0
    /\ last.fn \notin GroupFirst => \A i \in DOMAIN scene : scene[i].kind # "transform"
\* C17: a host call that raises in the middle of create_starship (v1 or v2),
\* create_ship or create_character leaves the call as an exception; every
\* node created before it, the starship generators' empty group included,
\* is still in the scene, at world level or under the ship group, and no
\* other node is.
C17_NotTransactional ==
    Interrupted =>
        NotTransactional(Unbroken.scene,
                         NodesBefore(steps_of(last.fn, last.arg), last.arg.fail, last.arg.late))
\* A fighter whose parenting loop is cut short: parts under the group and
\* parts at world level; and an X-wing cut at its grouping: every part, no group.
C17_Witness ==
    /\ Interrupted /\ last.raised = HostError
    /\ \/ /\ last.fn = "create_starship_v1" /\ Len(scene) = 12
          /\ \E i, j \in DOMAIN scene : i > 1 /\ j > 1 /\ scene[i].parent = 1 /\ scene[j].parent = 0
       \/ /\ last.fn = "create_ship" /\ last.arg.kind = "xwing" /\ Len(scene) = 21
          /\ last.arg.fail = Len(steps_of(last.fn, last.arg)) + 1

\* The keys a host holds, as a set.
KeysOf(h) == h.keys
\* The scene of the last call with its keys taken away.
Unkeyed == [Host EXCEPT !.keys = {}]
\* C18: create_starship of starship_v2.py with add_animation=True sets the
\* keys of add_engine_animation on the ship's parts and the keys of
\* add_flight_animation for the animation_style on the ship group, and with
\* add_animation=False sets no key.
C18_EngineAndFlightKeys ==
    (last.fn = "create_starship_v2" /\ last.raised = None) =>
        IF last.arg.add_animation
        THEN /\ KeysOf(add_engine_animation_v2(Unkeyed, last.ret)) # {}
             /\ KeysOf(add_engine_animation_v2(Unkeyed, last.ret)) \subseteq keys
             /\ KeysOf(add_flight_animation(Unkeyed, last.ret, last.arg.animation_style))
                    \subseteq keys
        ELSE keys = {}

\* A part whose material glows: apply_material was called with glow=True.
GlowPart(i) ==
    /\ scene[i].parent = last.ret
    /\ \E m \in Range(mats) :
        m.sg = scene[i].sg /\ \E c \in DOMAIN m.incandescence : m.incandescence[c] # 0
\* C19: create_starship of starship.py with add_animation=True sets the pulse
\* keys (scale at frames 1, 15, 30, 45, 60) on every engine-glow part its
\* builder made, and with add_animation=False sets no key.
C19_GlowPartsPulse ==
    (last.fn = "create_starship_v1" /\ last.raised = None) =>
        IF last.arg.add_animation
        THEN /\ \E i \in DOMAIN scene : GlowPart(i)
             /\ \A i \in DOMAIN scene :
                    GlowPart(i) => KeysOf(SetKeys(Unkeyed, i, engine_keys_v1)) \subseteq keys
        ELSE keys = {}

\* An escort fleet of at least one ship.
Escort ==
    /\ last.fn = "create_fleet_sw" /\ last.arg.formation = "escort" /\ last.arg.count >= 1
\* Where ship i (from 0) of the last fleet was put.
ShipAt(i) == scene[last.made[i + 1]].pos
\* The point of the radius-8 circle at num/den of a full turn.
OnRing(p, num, den) ==
    /\ DOMAIN p = DOMAIN OnCircle(0, <<0, 1>>, 0, 0)
    /\ p.radius = 800 /\ p.sx = 100 /\ p.sz = 100 /\ p.y = 0
    /\ p.turn[2] > 0 /\ p.turn[1] * den = num * p.turn[2]
\* Two points of a circle that differ by whole turns.
SamePoint(p, q) ==
    /\ p.radius = q.radius /\ p.sx = q.sx /\ p.sz = q.sz
    /\ (p.turn[1] * q.turn[2] - q.turn[1] * p.turn[2]) % (p.turn[2] * q.turn[2]) = 0
\* C20: the escort formation of any count >= 1 raises nothing, puts ship 0
\* at the centre and ship i of 1..count-1 on the radius-8 circle at
\* (i - 1) / (count - 1) of a full turn, no two of them at the same point.
C20_EscortRing ==
    Escort =>
        /\ last.raised = None /\ Len(last.made) = last.arg.count
        /\ ShipAt(0) = <<0, 0, 0>>
        /\ \A i \in 1..(last.arg.count - 1) :
            /\ OnRing(ShipAt(i), i - 1, last.arg.count - 1)
            /\ \A j \in 1..(last.arg.count - 1) : j # i => ~SamePoint(ShipAt(i), ShipAt(j))
\* A lone escort, and an escort of seven with ship 4 at the half turn.
C20_Witness ==
    /\ Escort /\ last.raised = None
    /\ \/ last.arg.count = 1 /\ Len(scene) > 1
       \/ last.arg.count = 7 /\ ShipAt(4).turn = <<1, 2>> /\ ShipAt(1).turn = <<0, 1>>

(***************************************************************************)
(* The font choice, material reuse, characters in one scene, formations,   *)
(* the text meshes, the windows and the search path.                       *)
(***************************************************************************)
FontChosen == last.fn = "get_available_font"
\* The font list the host reported to the call.
Reported == IF last.arg.mel_raises THEN {} ELSE Range(last.arg.host_fonts)
\* The candidates whose probe returned curves.
Working ==
    {MAYA_FONT_CANDIDATES[i] : i \in {j \in DOMAIN MAYA_FONT_CANDIDATES :
                                        last.arg.probes[j] = "curves"}}
MaterialCall == last.fn = "create_material"
\* A node of the name existed before the call: a DAG node or a shading node.
Existed(name) ==
    \/ \E i \in DOMAIN last.arg.before.scene : last.arg.before.scene[i].name = name
    \/ \E i \in DOMAIN last.arg.before.mats :
        last.arg.before.mats[i].name = name \/ last.arg.before.mats[i].sg = name
\* C22: create_material of minecraft_characters.py returns '<name>_SG'; with
\* a node '<name>_mat' in the scene it creates nothing and leaves every
\* material as it was, whatever the colour asked for; without one it creates
\* one shader '<name>_mat' with one shading group '<name>_SG' of the colour
\* asked for.
C22_MaterialReusedByName ==
    MaterialCall =>
        /\ last.ret = last.arg.name \o "_SG"
        /\ scene = last.arg.before.scene /\ keys = last.arg.before.keys
        /\ IF Existed(last.arg.name \o "_mat") THEN mats = last.arg.before.mats
           ELSE /\ Len(mats) = Len(last.arg.before.mats) + 1
                /\ SubSeq(mats, 1, Len(mats) - 1) = last.arg.before.mats
                /\ mats[Len(mats)].name = last.arg.name \o "_mat"
                /\ mats[Len(mats)].sg = last.arg.name \o "_SG"
                /\ mats[Len(mats)].color = last.arg.color
\* The material made by an earlier call asked for again in another colour.
C22_Witness ==
    /\ MaterialCall /\ Existed(last.arg.name \o "_mat") /\ last.arg.before.mats # <<>>
    /\ \E m \in Range(mats) :
        m.name = last.arg.name \o "_mat" /\ m.color # last.arg.color
    /\ mats = last.arg.before.mats

\* The last call returned a character.
CharacterMade == last.fn = "create_character" /\ last.raised = None
\* The name the character was built under.
NameMade ==
    IF last.arg.name = None
    THEN char_type_or_default(last.arg.char_type) \o "_" \o Str(RandInt(last.arg.q, 100, 999))
    ELSE last.arg.name
\* The colour of the material on the part of the character called part.
PartColor(part) ==
    MaterialOf(CHOOSE i \in DOMAIN scene :
                   scene[i].parent = last.ret /\ scene[i].name = NameMade \o part).color
HasPart(part) ==
    \E i \in DOMAIN scene : scene[i].parent = last.ret /\ scene[i].name = NameMade \o part
\* The body parts and the colour of CHARACTERS each is to have.
PartRoles ==
    <<(<<"_head", "skin">>), (<<"_hair", "hair">>), (<<"_eye_1", "eyes">>),
      (<<"_body", "shirt">>), (<<"_upper_arm_1", "shirt">>), (<<"_lower_arm_-1", "skin">>),
      (<<"_upper_leg_1", "pants">>), (<<"_lower_leg_-1", "pants">>), (<<"_shoe_1", "shoes">>)>>
\* C23: after any sequence of create_character calls the character made last
\* has its body parts in the colours CHARACTERS gives its own char_type and
\* its chestplate, if it has one, in the colour of its own armor type.
C23_OwnColours ==
    CharacterMade =>
        /\ \A k \in DOMAIN PartRoles :
            /\ HasPart(PartRoles[k][1])
            /\ PartColor(PartRoles[k][1]) =
                   CHARACTERS[char_type_or_default(last.arg.char_type)][PartRoles[k][2]]
        /\ last.arg.armor \in DOMAIN ARMOR_TYPES =>
            HasPart("_chestplate") /\ PartColor("_chestplate") = ARMOR_TYPES[last.arg.armor]

\* The formations that compute every position from the index and the count.
DeterministicFormation ==
    /\ last.fn \in {"create_fleet_sw", "create_fleet_v1", "create_squadron", "create_mob_horde"}
    /\ last.arg.formation \in
        (CASE last.fn = "create_fleet_sw" -> {"patrol", "attack", "escort"}
           [] last.fn = "create_fleet_v1" -> {"line", "v", "diamond"}
           [] last.fn = "create_squadron" -> {"line", "v", "diamond", "echelon"}
           [] OTHER -> {"line", "ambush"})
\* Item i of the last call was put on a circle.
Ringed(i) ==
    \/ last.arg.formation \in {"diamond", "ambush"}
    \/ last.arg.formation = "escort" /\ i >= 1
\* Items i and j of the last call are at one position.  A point of a circle
\* is never the centre.
Coincide(i, j) ==
    IF Ringed(i) /\ Ringed(j) THEN SamePoint(Instance(i).pos, Instance(j).pos)
    ELSE IF Ringed(i) \/ Ringed(j) THEN FALSE
    ELSE Instance(i).pos = Instance(j).pos
\* C24: in a deterministic formation no two instances of one group-builder
\* call are at the same position, for every count from 2 to 12.
C24_NoTwoAtOnePlace ==
    (DeterministicFormation /\ Returned /\ last.arg.count \in 2..12) =>
        \A i \in Items : \A j \in Items : i # j => ~Coincide(i, j)

(***************************************************************************)
(* C25.  Every mesh create_3d_text of fancy_3d_text_v2.py returns was      *)
(* created by that same call: a call never adopts, re-parents, re-colours  *)
(* or animates a mesh the scene held before it began.                      *)
(***************************************************************************)
TextMade == last.fn = "create_3d_text_v2" /\ last.ret.meshes # <<>>
C25_MeshesOfThisCall ==
    TextMade => \A i \in 1..Len(last.ret.meshes) : last.ret.meshes[i] > last.arg.before

(***************************************************************************)
(* C26.  After any sequence of show_ui calls at most one window with a     *)
(* generator's window name exists, for each of the six generators, and     *)
(* the generator whose show_ui was called last has its window.             *)
(***************************************************************************)
UIShown == last.fn = "show_ui"
C26_OneWindowPerName ==
    /\ \A g \in Generators : Count(session.windows, window_name(g)) <= 1
    /\ UIShown => Count(session.windows, window_name(last.arg.generator)) = 1
\* show_ui called with its window open, among the windows of other generators.
C26_Witness ==
    /\ UIShown /\ last.arg.existed
    /\ Len(session.windows) >= 2
    /\ Count(session.windows, window_name(last.arg.generator)) = 1

(***************************************************************************)
(* C27.  Extending sys.path is idempotent: after any number of runs of any *)
(* launchers a scripts path that was absent at the start of the session    *)
(* occurs in sys.path at most once, the scripts path of a launcher that    *)
(* has run occurs exactly once, and the entries the session started with   *)
(* are all there, unchanged and in their order.                            *)
(***************************************************************************)
StartPath == last.arg.path
AtStart(p) == \E i \in 1..Len(StartPath) : StartPath[i] = p
ScriptsPaths == {scripts_path(l) : l \in Launchers}
Launched == last.fn = "session" /\ session.out.launcher # None
C27_PathAddedOnce ==
    last.fn = "session" =>
        /\ \A p \in ScriptsPaths : ~AtStart(p) => Count(session.path, p) <= 1
        /\ \A i \in 1..Len(session.path) : AtStart(session.path[i]) \/ session.path[i] \in ScriptsPaths
        /\ SelectSeq(session.path, AtStart) = StartPath
        /\ Launched /\ ~AtStart(scripts_path(session.out.launcher))
            => Count(session.path, scripts_path(session.out.launcher)) = 1
\* Two launchers of the same scripts path have run, and then one again, in
\* a session that had entries of its own.
C27_Witness ==
    /\ Launched /\ session.steps = MaxSteps
    /\ session.modules["starship"] # 0 /\ session.modules["fancy_3d_text"] # 0
    /\ StartPath = <<"C:/maya/bin", "C:/maya/site-packages">>
    /\ session.path = <<"c:/Development/maya/scripts", "C:/maya/bin", "C:/maya/site-packages">>
====
